---- MODULE Spec2Model ----
(***************************************************************************)
(* Model of the polling engine of the Figma AI responder:                  *)
(*   src/src/main/polling.ts   scheduler, poll cycle, comment processing   *)
(*   src/unnamed/part_000      appStore (credentials, config, ledger)      *)
(*   src/src/services/figma-api.ts   remote comment service                *)
(*   src/src/main/main.ts      entry points (tray, IPC, app launch)        *)
(*                                                                         *)
(* pollOnce is an async function: it runs synchronously up to its first    *)
(* await, and then one step per network call that returns.  Each cycle in  *)
(* flight is a record of cyc; a step of a cycle is the code between two    *)
(* awaits.                                                                 *)
(***************************************************************************)
EXTENDS Integers, Sequences, FiniteSets, Bags, TLC

VARIABLES
    appReady,           \* main.ts: app.whenReady() has run
    figmaToken,         \* store: a Figma token is stored
    anthropicKey,       \* store: an Anthropic key is stored
    trigger,            \* store: plain.trigger (sequence of characters)
    monitoredFiles,     \* store: plain.monitoredFiles
    processedComments,  \* store: plain.processedComments (the ledger)
    isPolling,          \* polling.ts: let isPolling
    pollingInterval,    \* polling.ts: let pollingInterval (NoTimer or the armed timer's period)
    timers,             \* the interval timers armed by setInterval and not yet cleared
    status,             \* polling.ts: let status
    cyc,                \* the pollOnce() calls in flight (a bag of records)
    remote,             \* the comments of each file on the Figma server
    postLog,            \* history: the comment ids whose reply post succeeded (a bag)
    lastFailure,        \* history: <<comment id, step>> when the last step of the
                        \* behaviour ended a processComment in its catch
    failed,             \* history: the comment ids whose processing ended in the catch
                        \* (recorded by SpecFailures and SpecThread only)
    lastCall,           \* history: the entry point the last step of the behaviour
                        \* called and the status events that call emitted before
                        \* returning (recorded by SpecScheduler only)
    forest,             \* input of the pure functions: a fetched comment list
    targetIx,           \* input of the pure functions: index of the comment in forest
                        \* the function is applied to (0 before the application)
    walk                \* the root walk in progress, or the result of an application

vars == <<appReady, figmaToken, anthropicKey, trigger, monitoredFiles,
          processedComments, isPolling, pollingInterval, timers, status, cyc,
          remote, postLog, lastFailure, failed, lastCall, forest,
          targetIx, walk>>

storeVars == <<figmaToken, anthropicKey, trigger, monitoredFiles>>

----------------------------------------------------------------------------
(* Bounds *)

MaxInFlight == 2        \* pollOnce() calls that may be in flight together
MaxReplies == 2         \* reply posts the server accepts in one behaviour
MaxComments == 4        \* comments of a fetched list the pure functions are applied to
MaxMarks == 3           \* addProcessedComment calls applied to one ledger
MaxUpdates == 3         \* status records allocated after the initial one

(* Program constants *)

LedgerCap == 1000       \* "Keep last 1000 comments"
DefaultInterval == 30   \* getPollingInterval fallback

NULL == "null"
NoParent == 0           \* parent_id '' (a root comment)
NoTimer == 0            \* pollingInterval = null (no timer armed)

Files == {"X", "Y"}

Range(s) == {s[i] : i \in 1..Len(s)}

----------------------------------------------------------------------------
(* Strings are sequences of characters *)

TrigLower == <<"@", "a", "i">>
TrigUpper == <<"@", "A", "I">>
Plain == <<"o", "k">>

lowerChar(ch) ==
    CASE ch = "A" -> "a"
      [] ch = "I" -> "i"
      [] OTHER -> ch

\* the characters that have an upper and a lower case; "SIGMA" is the
\* capital sigma, "sigma" its lower case and "fsigma" its lower case at the
\* end of a word
Cased(ch) == ch \in {"a", "A", "i", "I", "SIGMA", "sigma", "fsigma"}

\* String.prototype.toLowerCase: character by character, except that a
\* capital sigma after a cased letter and not before one gets the final form
toLowerCase(s) ==
    [i \in 1..Len(s) |->
        IF s[i] = "SIGMA"
        THEN IF /\ i > 1
                /\ Cased(s[i - 1])
                /\ ~ (i < Len(s) /\ Cased(s[i + 1]))
             THEN "fsigma"
             ELSE "sigma"
        ELSE lowerChar(s[i])]

includes(text, sub) ==
    \E i \in 0..(Len(text) - Len(sub)) : SubSeq(text, i + 1, i + Len(sub)) = sub

----------------------------------------------------------------------------
(* appStore *)

getTrigger(trig) == IF trig = <<>> THEN TrigLower ELSE trig

hasCredentials == figmaToken /\ anthropicKey

isCommentProcessed_NeverM(processed, commentId) == FALSE

isCommentProcessed(processed, commentId) == commentId \in Range(processed)

addProcessedComment_NoCapM(processed, commentId) ==
    IF ~ (commentId \in Range(processed))
    THEN Append(processed, commentId)
    ELSE processed

addProcessedComment_DropNewestM(processed, commentId) ==
    IF ~ (commentId \in Range(processed))
    THEN LET n == Len(processed)
             kept == IF n > LedgerCap - 1
                     THEN SubSeq(processed, 1, LedgerCap - 1)
                     ELSE processed
         IN  Append(kept, commentId)
    ELSE processed

\* store 140-147: slice(-999) keeps the newest 999 ids
addProcessedComment(processed, commentId) ==
    IF ~ (commentId \in Range(processed))
    THEN LET n == Len(processed)
             kept == IF n > LedgerCap - 1
                     THEN SubSeq(processed, n - (LedgerCap - 1) + 1, n)
                     ELSE processed
         IN  Append(kept, commentId)
    ELSE processed

----------------------------------------------------------------------------
(* polling.ts: pure helpers *)

shouldTriggerAI(text, trig) ==
    includes(toLowerCase(text), toLowerCase(getTrigger(trig)))

\* new Map(allComments.map(c => [c.id, c])).get(id): the last entry wins
HasId(all, id) == \E i \in 1..Len(all) : all[i].id = id
ById(all, id) ==
    all[CHOOSE i \in 1..Len(all) :
            /\ all[i].id = id
            /\ \A j \in (i + 1)..Len(all) : all[j].id # id]

\* lines 33-40: the root walk of buildThreadHistory, yields rootId
RECURSIVE HistoryRootWalk(_, _, _)
HistoryRootWalk(all, rootId, current) ==
    IF current.parent_id # NoParent
    THEN IF ~ HasId(all, current.parent_id)
         THEN current.parent_id
         ELSE HistoryRootWalk(all, current.parent_id, ById(all, current.parent_id))
    ELSE rootId

\* lines 56-62: one scan of allComments, from index i
RECURSIVE ScanFrom(_, _, _)
ScanFrom(all, i, acc) ==
    IF i > Len(all) THEN acc
    ELSE LET c == all[i]
         IN  IF /\ ~ (c.id \in acc.ids)
                /\ c.parent_id # NoParent
                /\ c.parent_id \in acc.ids
             THEN ScanFrom(all, i + 1,
                           [list |-> Append(acc.list, c),
                            ids |-> acc.ids \cup {c.id},
                            foundMore |-> TRUE])
             ELSE ScanFrom(all, i + 1, acc)

\* lines 53-63: scan until a scan adds nothing
RECURSIVE CollectThread(_, _, _)
CollectThread(all, list, ids) ==
    LET r == ScanFrom(all, 1, [list |-> list, ids |-> ids, foundMore |-> FALSE])
    IN  IF r.foundMore THEN CollectThread(all, r.list, r.ids) ELSE r.list

\* line 66: Array.prototype.sort is stable; insertion into a sorted prefix
RECURSIVE InsertByTime(_, _)
InsertByTime(sorted, c) ==
    IF sorted = <<>> THEN <<c>>
    ELSE IF sorted[Len(sorted)].created_at > c.created_at
         THEN Append(InsertByTime(SubSeq(sorted, 1, Len(sorted) - 1), c),
                     sorted[Len(sorted)])
         ELSE Append(sorted, c)

RECURSIVE SortByCreatedAt(_)
SortByCreatedAt(list) ==
    IF list = <<>> THEN <<>>
    ELSE InsertByTime(SortByCreatedAt(SubSeq(list, 1, Len(list) - 1)),
                      list[Len(list)])

ToThreadMessage(c, trig) ==
    [userName |-> c.handle, message |-> c.message,
     isAI |-> ~ shouldTriggerAI(c.message, trig)]

\* lines 32-63: the root, if it was fetched, and the comments the scans add
threadComments(all, target) ==
    LET rootId == HistoryRootWalk(all, target.id, target)
        start == IF HasId(all, rootId) THEN <<ById(all, rootId)>> ELSE <<>>
    IN  CollectThread(all, start, {rootId})

buildThreadHistory_UnsortedM(all, target, trig) ==
    LET sorted == threadComments(all, target)
        others == SelectSeq(sorted, LAMBDA c : c.id # target.id)
    IN  [i \in 1..Len(others) |-> ToThreadMessage(others[i], trig)]

\* lines 25-81
buildThreadHistory(all, target, trig) ==
    LET sorted == SortByCreatedAt(threadComments(all, target))
        others == SelectSeq(sorted, LAMBDA c : c.id # target.id)
    IN  [i \in 1..Len(others) |-> ToThreadMessage(others[i], trig)]

\* lines 145-152: the walk that finds the comment whose pin is used
RECURSIVE ScreenshotRootWalk(_, _)
ScreenshotRootWalk(all, rootId) ==
    IF HasId(all, rootId) /\ ById(all, rootId).parent_id # NoParent
    THEN ScreenshotRootWalk(all, ById(all, rootId).parent_id)
    ELSE rootId

screenshotCommentId(all, comment) ==
    IF comment.parent_id # NoParent
    THEN ScreenshotRootWalk(all, comment.parent_id)
    ELSE comment.id

\* lines 183-189: the walk that finds the reply target
RECURSIVE ReplyRootWalk(_, _)
ReplyRootWalk(all, current) ==
    IF current.parent_id # NoParent /\ HasId(all, current.parent_id)
    THEN ReplyRootWalk(all, ById(all, current.parent_id))
    ELSE current

replyToId_ParentM(all, comment) ==
    IF comment.parent_id # NoParent
    THEN comment.parent_id
    ELSE comment.id

replyToId(all, comment) ==
    IF comment.parent_id # NoParent
    THEN ReplyRootWalk(all, comment).id
    ELSE comment.id

newAIComments_NoLedgerM(comments, processed, trig) ==
    SelectSeq(comments, LAMBDA c :
        c.resolved_at = NULL /\ shouldTriggerAI(c.message, trig))

newAIComments_NoRetryM(comments, processed, trig) ==
    SelectSeq(comments, LAMBDA c :
        /\ ~ isCommentProcessed(processed, c.id)
        /\ c.resolved_at = NULL
        /\ c.id \notin failed
        /\ shouldTriggerAI(c.message, trig))

newAIComments_ResolvedTooM(comments, processed, trig) ==
    SelectSeq(comments, LAMBDA c :
        /\ ~ isCommentProcessed(processed, c.id)
        /\ shouldTriggerAI(c.message, trig))

\* lines 243-256: the filter of checkFile
newAIComments(comments, processed, trig) ==
    SelectSeq(comments, LAMBDA c :
        /\ ~ isCommentProcessed(processed, c.id)
        /\ c.resolved_at = NULL
        /\ shouldTriggerAI(c.message, trig))

----------------------------------------------------------------------------
(* The remote comment service *)

Comment(id, parent, msg, t, handle) ==
    [id |-> id, parent_id |-> parent, message |-> msg, created_at |-> t,
     resolved_at |-> NULL, handle |-> handle]

Resolved(cm) == [cm EXCEPT !.resolved_at = "date"]

Now == 1 + Len(remote["X"]) + Len(remote["Y"])
NextReplyId == 10 + BagCardinality(postLog) + 1

IsRootOn(f, id) ==
    \E i \in 1..Len(remote[f]) :
        remote[f][i].id = id /\ remote[f][i].parent_id = NoParent

\* what the completion service may answer
ReplyTexts == {Plain}

----------------------------------------------------------------------------
(* polling.ts: status *)

ErrCredentials == "Missing API credentials"
ErrNoFiles == "No files to monitor"
ErrProcess == "Failed to process comment"

InitStatus ==
    [isActive |-> FALSE, lastCheck |-> NULL, filesMonitored |-> 0,
     commentsProcessed |-> 0, lastError |-> NULL]

----------------------------------------------------------------------------
(* One pollOnce() call in flight.  fetchFailed, acted and again are         *)
(* history fields: the files whose fetch threw, whether a comment was       *)
(* handed to processComment, and the selected comments whose processing     *)
(* had failed before they were selected.                                    *)

NewCycle ==
    [pc |-> "getFile", files |-> <<>>, fi |-> 0, comments |-> <<>>,
     sel |-> <<>>, ci |-> 0, threadHistory |-> <<>>, shotId |-> 0,
     aiResponse |-> <<>>, replyTo |-> 0,
     fetchFailed |-> {}, acted |-> FALSE, again |-> {}]

InFlight == BagToSet(cyc)
HasFreeSlot(cy) == BagCardinality(cy) < MaxInFlight
Processing == {"screenshot", "generate", "post"}

processCommentCatch_SilentM(st) == st

\* lines 218-221: the catch of processComment
processCommentCatch(st) == [st EXCEPT !.lastError = ErrProcess]

\* lines 262-265: the catch of checkFile only logs
checkFileCatch(st) == st

nextFile_NoTimestampM(rec, st) ==
    LET cleared == [rec EXCEPT !.comments = <<>>, !.sel = <<>>, !.ci = 0,
                               !.threadHistory = <<>>, !.shotId = 0,
                               !.aiResponse = <<>>, !.replyTo = 0,
                               !.again = {}]
    IN  IF rec.fi < Len(rec.files)
        THEN [rec |-> [cleared EXCEPT !.pc = "getFile", !.fi = rec.fi + 1],
              status |-> st]
        ELSE [rec |-> [cleared EXCEPT !.pc = "done"],
              status |-> IF rec.fetchFailed = {} THEN [st EXCEPT !.lastCheck = "date"]
                         ELSE st]

nextFile_ReactivatesM(rec, st) ==
    LET cleared == [rec EXCEPT !.comments = <<>>, !.sel = <<>>, !.ci = 0,
                               !.threadHistory = <<>>, !.shotId = 0,
                               !.aiResponse = <<>>, !.replyTo = 0,
                               !.again = {}]
    IN  IF rec.fi < Len(rec.files)
        THEN [rec |-> [cleared EXCEPT !.pc = "getFile", !.fi = rec.fi + 1],
              status |-> st]
        ELSE [rec |-> [cleared EXCEPT !.pc = "done"],
              status |-> [st EXCEPT !.lastCheck = "date", !.isActive = TRUE]]

\* lines 295-299: the next file of the loop, or the end of the cycle
nextFile(rec, st) ==
    LET cleared == [rec EXCEPT !.comments = <<>>, !.sel = <<>>, !.ci = 0,
                               !.threadHistory = <<>>, !.shotId = 0,
                               !.aiResponse = <<>>, !.replyTo = 0,
                               !.again = {}]
    IN  IF rec.fi < Len(rec.files)
        THEN [rec |-> [cleared EXCEPT !.pc = "getFile", !.fi = rec.fi + 1],
              status |-> st]
        ELSE [rec |-> [cleared EXCEPT !.pc = "done"],
              status |-> [st EXCEPT !.lastCheck = "date"]]

afterFetchFails_RethrowM(rec, st) ==
    [rec |-> [rec EXCEPT !.pc = "done"], status |-> st]

\* lines 234-240, 262-265: getFile or getComments threw inside checkFile
afterFetchFails(rec, st) ==
    nextFile([rec EXCEPT !.fetchFailed = @ \cup {rec.files[rec.fi]}],
             checkFileCatch(st))

\* lines 132-159: processComment up to the await of getScreenshotForComment
beginComment(rec, i, trig) ==
    LET comment == rec.sel[i]
    IN  [rec EXCEPT !.pc = "screenshot", !.ci = i,
                    !.threadHistory = buildThreadHistory(rec.comments, comment, trig),
                    !.shotId = screenshotCommentId(rec.comments, comment),
                    !.aiResponse = <<>>, !.replyTo = 0,
                    !.acted = TRUE]

nextComment_LastFirstM(rec, st, trig) ==
    IF rec.ci = 0 /\ Len(rec.sel) > 1
    THEN [rec |-> beginComment(rec, Len(rec.sel), trig), status |-> st]
    ELSE IF rec.ci < Len(rec.sel)
    THEN [rec |-> beginComment(rec, rec.ci + 1, trig), status |-> st]
    ELSE nextFile(rec, st)

\* lines 259-261: the next selected comment, or the end of checkFile
nextComment(rec, st, trig) ==
    IF rec.ci < Len(rec.sel)
    THEN [rec |-> beginComment(rec, rec.ci + 1, trig), status |-> st]
    ELSE nextFile(rec, st)

afterCommentFails_RethrowM(rec, st, trig) == nextFile(rec, st)

\* lines 218-222, 259-261: an await of processComment threw
afterCommentFails(rec, st, trig) == nextComment(rec, processCommentCatch(st), trig)

\* lines 271-301: pollOnce up to its first await
pollOnce(st, cy) ==
    IF ~ figmaToken \/ ~ anthropicKey
    THEN [status |-> [st EXCEPT !.lastError = ErrCredentials], cyc |-> cy]
    ELSE IF Len(monitoredFiles) = 0
    THEN [status |-> [st EXCEPT !.lastError = ErrNoFiles], cyc |-> cy]
    ELSE [status |-> [st EXCEPT !.filesMonitored = Len(monitoredFiles),
                                !.lastError = NULL],
          cyc |-> cy (+) SetToBag({[NewCycle EXCEPT !.files = monitoredFiles,
                                                     !.fi = 1]})]

pollOnceRuns == figmaToken /\ anthropicKey /\ Len(monitoredFiles) > 0

\* lines 306-330
startPolling_NoGuardM(isP, timer, tm, st, cy) ==
    IF ~ hasCredentials
    THEN [isPolling |-> isP, pollingInterval |-> timer, timers |-> tm,
          status |-> [st EXCEPT !.lastError = ErrCredentials], cyc |-> cy,
          emitted |-> 1]
    ELSE LET r == pollOnce([st EXCEPT !.isActive = TRUE, !.lastError = NULL], cy)
         IN  [isPolling |-> TRUE, pollingInterval |-> DefaultInterval,
              timers |-> tm + 1, status |-> r.status, cyc |-> r.cyc,
              emitted |-> 2]

startPolling_NoImmediateM(isP, timer, tm, st, cy) ==
    IF isP
    THEN [isPolling |-> isP, pollingInterval |-> timer, timers |-> tm,
          status |-> st, cyc |-> cy, emitted |-> 0]
    ELSE IF ~ hasCredentials
    THEN [isPolling |-> isP, pollingInterval |-> timer, timers |-> tm,
          status |-> [st EXCEPT !.lastError = ErrCredentials], cyc |-> cy,
          emitted |-> 1]
    ELSE [isPolling |-> TRUE, pollingInterval |-> DefaultInterval,
          timers |-> tm + 1,
          status |-> [st EXCEPT !.isActive = TRUE, !.lastError = NULL],
          cyc |-> cy, emitted |-> 1]

\* emitted counts the calls of updateStatus: none on the early return, one
\* at line 314, one at line 321 followed by the one pollOnce makes before
\* its first await
startPolling(isP, timer, tm, st, cy) ==
    IF isP
    THEN [isPolling |-> isP, pollingInterval |-> timer, timers |-> tm,
          status |-> st, cyc |-> cy, emitted |-> 0]
    ELSE IF ~ hasCredentials
    THEN [isPolling |-> isP, pollingInterval |-> timer, timers |-> tm,
          status |-> [st EXCEPT !.lastError = ErrCredentials], cyc |-> cy,
          emitted |-> 1]
    ELSE LET r == pollOnce([st EXCEPT !.isActive = TRUE, !.lastError = NULL], cy)
         IN  [isPolling |-> TRUE, pollingInterval |-> DefaultInterval,
              timers |-> tm + 1, status |-> r.status, cyc |-> r.cyc,
              emitted |-> 2]

----------------------------------------------------------------------------
(* Initial state: the module-level initialisers, before app.whenReady() *)

\* an unresolved triggering comment in X, next to a comment without the
\* trigger; a resolved triggering comment in Y
RemoteOneThread ==
    [f \in Files |->
        IF f = "X" THEN <<Comment(1, NoParent, TrigUpper, 1, "ann"),
                          Comment(5, NoParent, Plain, 2, "bob")>>
                   ELSE <<Resolved(Comment(4, NoParent, TrigLower, 3, "ann"))>>]

\* a triggering comment in X with a triggering reply
RemoteTwoInThread ==
    [f \in Files |->
        IF f = "X" THEN <<Comment(1, NoParent, TrigUpper, 1, "ann"),
                          Comment(5, NoParent, Plain, 2, "bob"),
                          Comment(3, 1, TrigLower, 3, "bob")>>
                   ELSE <<Resolved(Comment(4, NoParent, TrigLower, 4, "ann"))>>]

\* no entry point was called
NoCall == [op |-> "none"]

\* the module-level initialisers of polling.ts and an empty ledger
InitEngine ==
    /\ appReady = FALSE
    /\ figmaToken = TRUE
    /\ anthropicKey = TRUE
    /\ trigger = <<>>
    /\ processedComments = <<>>
    /\ isPolling = FALSE
    /\ pollingInterval = NoTimer
    /\ timers = 0
    /\ status = InitStatus
    /\ cyc = EmptyBag
    /\ postLog = EmptyBag
    /\ lastFailure = <<>>
    /\ failed = {}
    /\ lastCall = NoCall

\* no pure function is being applied
NoWalk == [kind |-> "none"]
NoForest == forest = <<>> /\ targetIx = 0 /\ walk = NoWalk

\* both keys are stored and the two files are monitored, in either order
Init ==
    /\ InitEngine
    /\ NoForest
    /\ monitoredFiles \in {<<"X", "Y">>, <<"Y", "X">>}
    /\ remote = RemoteOneThread

----------------------------------------------------------------------------
(* main.ts: entry points *)

\* main.ts 348-367: app.whenReady()
AppReady ==
    /\ ~ appReady
    /\ appReady' = TRUE
    /\ IF hasCredentials /\ Len(monitoredFiles) > 0
       THEN LET r == startPolling(isPolling, pollingInterval, timers, status, cyc)
            IN  /\ isPolling' = r.isPolling
                /\ pollingInterval' = r.pollingInterval
                /\ timers' = r.timers
                /\ status' = r.status
                /\ cyc' = r.cyc
       ELSE UNCHANGED <<isPolling, pollingInterval, timers, status, cyc>>
    /\ UNCHANGED <<storeVars, processedComments, remote, postLog>>

\* main.ts 199-205: Quit stops polling and ends the process, and with it the
\* cycles in flight; the store file stays.  The next launch starts from the
\* module-level initialisers.
Quit ==
    /\ appReady
    /\ appReady' = FALSE
    /\ isPolling' = FALSE
    /\ pollingInterval' = NoTimer
    /\ timers' = 0
    /\ status' = InitStatus
    /\ cyc' = EmptyBag
    /\ UNCHANGED <<storeVars, processedComments, remote, postLog>>

----------------------------------------------------------------------------
(* polling.ts: scheduler *)

\* lines 306-330, called from the tray and from IPC
StartPolling ==
    /\ appReady
    /\ (~ isPolling /\ pollOnceRuns) => HasFreeSlot(cyc)
    /\ LET r == startPolling(isPolling, pollingInterval, timers, status, cyc)
       IN  /\ isPolling' = r.isPolling
           /\ pollingInterval' = r.pollingInterval
           /\ timers' = r.timers
           /\ status' = r.status
           /\ cyc' = r.cyc
    /\ UNCHANGED <<appReady, storeVars, processedComments, remote, postLog>>

StopPolling_KeepsTimerM ==
    /\ appReady
    /\ isPolling' = FALSE
    /\ status' = [status EXCEPT !.isActive = FALSE]
    /\ UNCHANGED <<appReady, storeVars, processedComments, pollingInterval,
                   timers, cyc, remote, postLog>>

\* lines 335-343
StopPolling ==
    /\ appReady
    /\ timers' = IF pollingInterval # NoTimer THEN timers - 1 ELSE timers
    /\ pollingInterval' = NoTimer
    /\ isPolling' = FALSE
    /\ status' = [status EXCEPT !.isActive = FALSE]
    /\ UNCHANGED <<appReady, storeVars, processedComments, cyc, remote, postLog>>

\* lines 327-329: the setInterval callback
TimerFires ==
    /\ appReady
    /\ timers > 0
    /\ pollOnceRuns => HasFreeSlot(cyc)
    /\ LET r == pollOnce(status, cyc)
       IN  status' = r.status /\ cyc' = r.cyc
    /\ UNCHANGED <<appReady, storeVars, processedComments, isPolling,
                   pollingInterval, timers, remote, postLog>>

PollNow_RearmM ==
    /\ appReady
    /\ pollOnceRuns => HasFreeSlot(cyc)
    /\ IF hasCredentials
       THEN LET r == pollOnce(status, cyc)
            IN  status' = r.status /\ cyc' = r.cyc
       ELSE UNCHANGED <<status, cyc>>
    /\ pollingInterval' = NoTimer
    /\ timers' = 0
    /\ UNCHANGED <<appReady, storeVars, processedComments, isPolling, remote,
                   postLog>>

PollNow_ActivatesM ==
    /\ appReady
    /\ pollOnceRuns => HasFreeSlot(cyc)
    /\ IF hasCredentials
       THEN LET r == pollOnce([status EXCEPT !.isActive = TRUE], cyc)
            IN  status' = r.status /\ cyc' = r.cyc
       ELSE UNCHANGED <<status, cyc>>
    /\ UNCHANGED <<appReady, storeVars, processedComments, isPolling,
                   pollingInterval, timers, remote, postLog>>

\* lines 362-366
PollNow ==
    /\ appReady
    /\ pollOnceRuns => HasFreeSlot(cyc)
    /\ IF hasCredentials
       THEN LET r == pollOnce(status, cyc)
            IN  status' = r.status /\ cyc' = r.cyc
       ELSE UNCHANGED <<status, cyc>>
    /\ UNCHANGED <<appReady, storeVars, processedComments, isPolling,
                   pollingInterval, timers, remote, postLog>>

----------------------------------------------------------------------------
(* polling.ts: the steps of a cycle, one per await that returns.  c is the  *)
(* record of the cycle that takes the step.                                 *)

SetCycle(c, r) ==
    /\ cyc' = IF r.rec.pc = "done"
              THEN cyc (-) SetToBag({c})
              ELSE (cyc (-) SetToBag({c})) (+) SetToBag({r.rec})
    /\ status' = r.status

\* line 236: await getFile
GetFileReturns(c, ok) ==
    /\ c.pc = "getFile"
    /\ IF ok
       THEN SetCycle(c, [rec |-> [c EXCEPT !.pc = "getComments"], status |-> status])
       ELSE SetCycle(c, afterFetchFails(c, status))
    /\ UNCHANGED <<appReady, storeVars, processedComments, isPolling,
                   pollingInterval, timers, remote, postLog>>

\* lines 240-261: await getComments, the filter, and the first processComment
GetCommentsReturns(c, ok) ==
    /\ c.pc = "getComments"
    /\ IF ok
       THEN LET comments == remote[c.files[c.fi]]
                sel == newAIComments(comments, processedComments, trigger)
                rec == [c EXCEPT !.comments = comments,
                                 !.sel = sel,
                                 !.ci = 0,
                                 !.again = {sel[i].id : i \in 1..Len(sel)} \cap failed]
            IN  SetCycle(c, nextComment(rec, status, trigger))
       ELSE SetCycle(c, afterFetchFails(c, status))
    /\ UNCHANGED <<appReady, storeVars, processedComments, isPolling,
                   pollingInterval, timers, remote, postLog>>

\* lines 155-176: await getScreenshotForComment; it yields an image, yields
\* none, or throws (its getComment and getFile calls are outside its try).
\* The image goes into the context of generateResponse and nowhere else.
ScreenshotStep(c, out) ==
    /\ c.pc = "screenshot"
    /\ IF out = "throws"
       THEN SetCycle(c, afterCommentFails(c, status, trigger))
       ELSE SetCycle(c, [rec |-> [c EXCEPT !.pc = "generate"], status |-> status])
    /\ UNCHANGED <<appReady, storeVars, processedComments, isPolling,
                   pollingInterval, timers, remote, postLog>>

\* lines 176-194: await generateResponse, then the reply target
GenerateStep(c, ok, text) ==
    /\ c.pc = "generate"
    /\ IF ok
       THEN SetCycle(c, [rec |-> [c EXCEPT
                                     !.pc = "post",
                                     !.aiResponse = text,
                                     !.replyTo = replyToId(c.comments, c.sel[c.ci])],
                         status |-> status])
       ELSE SetCycle(c, afterCommentFails(c, status, trigger))
    /\ UNCHANGED <<appReady, storeVars, processedComments, isPolling,
                   pollingInterval, timers, remote, postLog>>

PostOutcomes == {"ok", "notifyThrows", "storeThrows", "postFails"}

ledgerAfterPost_AlwaysM(processed, commentId, out) ==
    addProcessedComment(processed, commentId)

\* lines 194-197: the ledger after the await of postComment
ledgerAfterPost(processed, commentId, out) ==
    IF out \in {"ok", "notifyThrows"}
    THEN addProcessedComment(processed, commentId)
    ELSE processed

\* lines 198-221: the status after the await of postComment
statusAfterPost(st, out) ==
    LET counted == [st EXCEPT !.commentsProcessed = st.commentsProcessed + 1]
    IN  CASE out = "ok" -> counted
          [] out = "notifyThrows" -> processCommentCatch(counted)
          [] OTHER -> processCommentCatch(st)

\* lines 194-221: await postComment, ledger, counter, notification
PostStep(c, out) ==
    LET f == c.files[c.fi]
        comment == c.sel[c.ci]
    IN  /\ c.pc = "post"
        /\ out \in PostOutcomes
        /\ IF out # "postFails"
           THEN /\ IsRootOn(f, c.replyTo)
                /\ BagCardinality(postLog) < MaxReplies
                /\ remote' = [remote EXCEPT ![f] =
                                Append(@, Comment(NextReplyId, c.replyTo,
                                                  c.aiResponse, Now, "bot"))]
                /\ postLog' = postLog (+) SetToBag({comment.id})
           ELSE UNCHANGED <<remote, postLog>>
        /\ processedComments' = ledgerAfterPost(processedComments, comment.id, out)
        /\ SetCycle(c, nextComment(c, statusAfterPost(status, out), trigger))
        /\ UNCHANGED <<appReady, storeVars, isPolling, pollingInterval, timers>>

ScreenshotReturns(c, out) == ScreenshotStep(c, out)
GenerateReturns(c, ok, text) == GenerateStep(c, ok, text)
PostReturns(c, out) == PostStep(c, out)

----------------------------------------------------------------------------

\* the step applies no pure function and records no call
Idle == UNCHANGED <<lastCall, forest, targetIx, walk>>

NoHistory == Idle /\ UNCHANGED <<lastFailure, failed>>

Next ==
    \/ AppReady /\ NoHistory
    \/ Quit /\ NoHistory
    \/ StartPolling /\ NoHistory
    \/ StopPolling /\ NoHistory
    \/ TimerFires /\ NoHistory
    \/ PollNow /\ NoHistory
    \/ \E c \in InFlight, ok \in BOOLEAN : GetFileReturns(c, ok) /\ NoHistory
    \/ \E c \in InFlight, ok \in BOOLEAN : GetCommentsReturns(c, ok) /\ NoHistory
    \/ \E c \in InFlight, out \in {"image", "none", "throws"} :
            ScreenshotReturns(c, out) /\ NoHistory
    \/ \E c \in InFlight, ok \in BOOLEAN, text \in ReplyTexts :
            GenerateReturns(c, ok, text) /\ NoHistory
    \/ \E c \in InFlight, out \in PostOutcomes : PostReturns(c, out) /\ NoHistory

Spec == Init /\ [][Next]_vars

----------------------------------------------------------------------------
(* The same engine with the failures of processComment recorded, without   *)
(* Quit.  lastFailure holds the failure of the last step; failed keeps the  *)
(* ids when remember is TRUE.                                               *)

NoFailure == Idle /\ lastFailure' = <<>> /\ UNCHANGED failed

Failure(c, step, remember) ==
    /\ Idle
    /\ lastFailure' = <<c.sel[c.ci].id, step>>
    /\ failed' = IF remember THEN failed \cup {c.sel[c.ci].id} ELSE failed

ScreenshotReturnsF(c, out, remember) ==
    /\ ScreenshotStep(c, out)
    /\ IF out = "throws" THEN Failure(c, "screenshot", remember) ELSE NoFailure

GenerateReturnsF(c, ok, text, remember) ==
    /\ GenerateStep(c, ok, text)
    /\ IF ok THEN NoFailure ELSE Failure(c, "generate", remember)

PostReturnsF(c, out, remember) ==
    /\ PostStep(c, out)
    /\ CASE out = "ok" -> NoFailure
         [] out = "notifyThrows" -> Failure(c, "notify", remember)
         [] out = "storeThrows" -> Failure(c, "store", remember)
         [] OTHER -> Failure(c, "post", remember)

NextFailures ==
    \/ AppReady /\ NoFailure
    \/ StartPolling /\ NoFailure
    \/ StopPolling /\ NoFailure
    \/ TimerFires /\ NoFailure
    \/ PollNow /\ NoFailure
    \/ \E c \in InFlight, ok \in BOOLEAN : GetFileReturns(c, ok) /\ NoFailure
    \/ \E c \in InFlight, ok \in BOOLEAN : GetCommentsReturns(c, ok) /\ NoFailure
    \/ \E c \in InFlight, out \in {"image", "none", "throws"} :
            ScreenshotReturnsF(c, out, TRUE)
    \/ \E c \in InFlight, ok \in BOOLEAN, text \in ReplyTexts :
            GenerateReturnsF(c, ok, text, TRUE)
    \/ \E c \in InFlight, out \in PostOutcomes : PostReturnsF(c, out, TRUE)

SpecFailures == Init /\ [][NextFailures]_vars

\* one monitored file, whose thread holds two triggering comments; polling
\* is started at launch and not stopped
InitThread ==
    /\ InitEngine
    /\ NoForest
    /\ monitoredFiles = <<"X">>
    /\ remote = RemoteTwoInThread

NextThread ==
    \/ AppReady /\ NoFailure
    \/ TimerFires /\ NoFailure
    \/ PollNow /\ NoFailure
    \/ \E c \in InFlight, ok \in BOOLEAN : GetFileReturns(c, ok) /\ NoFailure
    \/ \E c \in InFlight, ok \in BOOLEAN : GetCommentsReturns(c, ok) /\ NoFailure
    \/ \E c \in InFlight, out \in {"image", "none", "throws"} :
            ScreenshotReturnsF(c, out, FALSE)
    \/ \E c \in InFlight, ok \in BOOLEAN, text \in ReplyTexts :
            GenerateReturnsF(c, ok, text, FALSE)
    \/ \E c \in InFlight, out \in PostOutcomes : PostReturnsF(c, out, FALSE)

SpecThread == InitThread /\ [][NextThread]_vars

----------------------------------------------------------------------------
(* What a step does to the cycles in flight *)

\* the step takes cycle r to r2
Stepped(r, r2) ==
    /\ r \in InFlight
    /\ r2 # r
    /\ BagCardinality(cyc') = BagCardinality(cyc)
    /\ cyc' = (cyc (-) SetToBag({r})) (+) SetToBag({r2})

\* the step is the last one of cycle r
Ended(r) ==
    /\ r \in InFlight
    /\ appReady'
    /\ BagCardinality(cyc') < BagCardinality(cyc)
    /\ cyc' = cyc (-) SetToBag({r})

Moved(r) == Ended(r) \/ \E r2 \in InFlight' : Stepped(r, r2)

FileOf(r) == r.files[r.fi]
Ledger == Range(processedComments)

\* unresolved, triggering and not in the ledger
Qualifies(cm) ==
    /\ cm.resolved_at = NULL
    /\ shouldTriggerAI(cm.message, trigger)
    /\ cm.id \notin Ledger

\* every unresolved triggering comment of the list is in the ledger
AllLedgered(comments) == \A k \in 1..Len(comments) : ~ Qualifies(comments[k])

\* a cycle has gone past its first file, whose fetch succeeded, and handed
\* no comment to processComment, while that file holds an unresolved
\* triggering comment that is in the ledger
PassedLedgered(r) ==
    /\ r.fi = 2
    /\ ~ r.acted
    /\ r.files[1] \notin r.fetchFailed
    /\ \E k \in 1..Len(remote[r.files[1]]) :
          LET cm == remote[r.files[1]][k]
          IN  /\ cm.resolved_at = NULL
              /\ shouldTriggerAI(cm.message, trigger)
              /\ cm.id \in Ledger

----------------------------------------------------------------------------
(* Claims *)

\* C1: at most one poll cycle is in flight at any time; a start, a timer
\* firing or a manual trigger begins a cycle only after the previous one
\* has finished.
C1_OneCycleAtATime == BagCardinality(cyc) <= 1

\* C2: the engine posts at most one reply per triggering comment, across
\* any sequence of cycles.
C2_AtMostOneReply == \A id \in BagToSet(postLog) : CopiesIn(id, postLog) <= 1

\* C3: every id in the ledger is the id of a comment for which a reply post
\* has succeeded.
C3_LedgerOnlyAfterPost ==
    \A i \in 1..Len(processedComments) : BagIn(processedComments[i], postLog)

C3_Witness == Len(processedComments) > 0 /\ status.lastError = ErrProcess

\* C4: a cycle checks every monitored file: it ends only at its last file,
\* it goes from a file to the next one only, whether the fetch failed or the
\* comments were processed, and it leaves a file only after the last
\* selected comment, a fetched file being left without processing only if
\* nothing in it qualifies.
C4_EveryFileChecked ==
    [][\A r \in InFlight :
          /\ Ended(r) =>
                /\ r.fi = Len(r.files)
                /\ r.pc \in Processing => r.ci = Len(r.sel)
          /\ \A r2 \in InFlight' : Stepped(r, r2) =>
                /\ r2.files = r.files
                /\ \/ r2.fi = r.fi
                   \/ /\ r2.fi = r.fi + 1
                      /\ r2.pc = "getFile"
                      /\ r.pc \in Processing => r.ci = Len(r.sel)
                      /\ (r.pc = "getComments" /\ FileOf(r) \notin r2.fetchFailed)
                            => AllLedgered(remote[FileOf(r)])
                /\ (r2.fi = r.fi /\ r2.ci # r.ci) =>
                      r2.ci = r.ci + 1 /\ r2.pc = "screenshot"]_vars

C4_Witness ==
    \E r \in InFlight :
        r.fi = 2 /\ r.files[1] \in r.fetchFailed /\ r.pc = "post"

\* C5: a cycle that finds every unresolved triggering comment of a fetched
\* list in the ledger hands no comment to processComment for it, posts
\* nothing and changes neither the ledger nor the processed counter; replies,
\* ledger writes and counter increments come only from a cycle that found a
\* qualifying comment outside the ledger.
C5_Idempotent ==
    [][/\ \A r \in InFlight :
             (r.pc = "getComments" /\ Moved(r) /\ AllLedgered(remote[FileOf(r)])) =>
                /\ \A r2 \in InFlight' : Stepped(r, r2) =>
                      r2.pc = "getFile" /\ r2.acted = r.acted
                /\ processedComments' = processedComments
                /\ postLog' = postLog
                /\ remote' = remote
                /\ status'.commentsProcessed = status.commentsProcessed
       /\ \A r \in InFlight : \A r2 \in InFlight' :
             (Stepped(r, r2) /\ r2.acted # r.acted) =>
                r.pc = "getComments" /\ ~ AllLedgered(remote[FileOf(r)])
       /\ (\/ processedComments' # processedComments
           \/ postLog' # postLog
           \/ appReady' /\ status'.commentsProcessed # status.commentsProcessed) =>
             \E r \in InFlight : r.pc = "post" /\ r.acted /\ Moved(r)]_vars

C5_Witness == status.commentsProcessed > 0 /\ \E r \in InFlight : PassedLedgered(r)

\* C6: the ledger survives a quit and relaunch: quitting keeps it, no id
\* ever leaves it and no fetch selects a comment whose id is in it.  The
\* processed counter is 0 at each launch and grows with every ledger write,
\* so while it is 0 every id in the ledger was written before the launch:
\* then no cycle holds such a comment in its selection and no step posts a
\* reply to one.
C6_LedgerSurvivesRestart ==
    /\ [](status.commentsProcessed = 0 =>
             \A r \in InFlight : \A i \in 1..Len(r.sel) : r.sel[i].id \notin Ledger)
    /\ [][/\ (appReady /\ ~ appReady') => processedComments' = processedComments
          /\ Ledger \subseteq Ledger'
          /\ \A r \in InFlight : \A r2 \in InFlight' :
                (Stepped(r, r2) /\ r.pc = "getComments") =>
                   \A i \in 1..Len(r2.sel) : r2.sel[i].id \notin Ledger
          /\ processedComments' # processedComments =>
                status'.commentsProcessed = status.commentsProcessed + 1
          /\ status.commentsProcessed = 0 =>
                \A id \in Ledger : CopiesIn(id, postLog') = CopiesIn(id, postLog)]_vars

C6_Witness ==
    /\ status.commentsProcessed = 0
    /\ \E r \in InFlight : PassedLedgered(r)

\* C7: when the completion request fails, the run of processComment is over
\* without a post, the ledger, the counter and the replies are unchanged and
\* lastError is set; when the reply post fails, the ledger and the counter
\* are unchanged and lastError is set.
C7_FailureLeavesLedger ==
    [][\A r \in InFlight :
          /\ (r.pc = "generate" /\ Moved(r)
                /\ ~ \E r2 \in InFlight' : Stepped(r, r2) /\ r2.pc = "post") =>
                /\ processedComments' = processedComments
                /\ postLog' = postLog
                /\ remote' = remote
                /\ status'.commentsProcessed = status.commentsProcessed
                /\ status'.lastError = ErrProcess
          /\ (r.pc = "post" /\ Moved(r) /\ remote' = remote) =>
                /\ processedComments' = processedComments
                /\ postLog' = postLog
                /\ status'.commentsProcessed = status.commentsProcessed
                /\ status'.lastError = ErrProcess]_vars

C7_Witness ==
    /\ lastFailure # <<>>
    /\ lastFailure[2] = "generate"
    /\ lastFailure[1] \notin Ledger
    /\ status.lastError = ErrProcess

\* C8: a failure of processComment before the ledger write leaves the
\* ledger as it was, and a fetch that succeeds selects every comment that is
\* unresolved, triggering and absent from the ledger, in fetch order, those
\* whose processing failed before included; processing starts with the first
\* of them in the same step.
C8_FailedIsRetried ==
    [][/\ (lastFailure' # <<>> /\ lastFailure'[2] # "notify") =>
             processedComments' = processedComments
       /\ \A r \in InFlight : \A r2 \in InFlight' :
             (r.pc = "getComments" /\ Stepped(r, r2) /\ FileOf(r) \notin r2.fetchFailed) =>
                IF AllLedgered(remote[FileOf(r)])
                THEN r2.fi = r.fi + 1
                ELSE /\ r2.fi = r.fi
                     /\ r2.pc = "screenshot"
                     /\ r2.ci = 1
                     /\ r2.sel = SelectSeq(remote[FileOf(r)], Qualifies)
                     /\ r2.again = {cm.id : cm \in {x \in Range(remote[FileOf(r)]) :
                                                       Qualifies(x)}} \cap failed]_vars

C8_Witness ==
    \E r \in InFlight : r.pc = "post" /\ r.sel[r.ci].id \in r.again

\* C9: processComment never propagates a failure: a failing step sets
\* lastError, and while selected comments of the file remain the cycle
\* goes on with the same comment or with the next one.
C9_ProcessorNeverThrows ==
    [][/\ lastFailure' # <<>> => status'.lastError = ErrProcess
       /\ \A r \in InFlight :
             (r.pc \in Processing /\ r.ci < Len(r.sel)) =>
                /\ ~ Ended(r)
                /\ \A r2 \in InFlight' : Stepped(r, r2) =>
                      /\ r2.fi = r.fi
                      /\ r2.sel = r.sel
                      /\ \/ r2.ci = r.ci
                         \/ r2.ci = r.ci + 1 /\ r2.pc = "screenshot"]_vars

C9_Witness ==
    /\ lastFailure # <<>>
    /\ status.lastError = ErrProcess
    /\ BagCardinality(cyc) = 1
    /\ \E r \in InFlight :
          r.ci = 2 /\ r.pc = "screenshot" /\ r.sel[1].id = lastFailure[1]

\* C10: a cycle in which the fetch of a file failed ends with lastError
\* set and with filesMonitored equal to the number of monitored files.
C10_FetchFailureRecorded ==
    [][\A r \in InFlight :
          (Ended(r) /\ r.fetchFailed # {}) =>
             /\ status'.lastError # NULL
             /\ status'.filesMonitored = Len(r.files)]_vars

----------------------------------------------------------------------------
(* The pure functions of polling.ts applied to fetched comment lists.  The *)
(* comment at position i of the list has id i, so a parent may come before *)
(* or after its replies in fetch order.                                     *)

Missing == 9            \* a parent id that no fetched comment has

Ids(all) == {all[i].id : i \in 1..Len(all)}

\* the fetched comments reached from the ids of S by following parent ids
\* at most k times
RECURSIVE ChainUp(_, _, _)
ChainUp(all, S, k) ==
    IF k = 0 THEN S
    ELSE ChainUp(all, S \cup ({ById(all, x).parent_id : x \in S} \cap Ids(all)),
                 k - 1)

AncestorsOrSelf(all, id) == ChainUp(all, {id}, Len(all))
Ancestors(all, id) ==
    ChainUp(all, {ById(all, id).parent_id} \cap Ids(all), Len(all))

\* no comment is its own ancestor
Acyclic(all) == \A id \in Ids(all) : id \notin Ancestors(all, id)

\* a forest: acyclic, and every parent id is the id of a fetched comment
WellFormed(all) ==
    /\ Acyclic(all)
    /\ \A id \in Ids(all) : ById(all, id).parent_id \in Ids(all) \cup {NoParent}

\* the ancestor-or-self without a parent, in a forest
RootIdOf(all, id) ==
    CHOOSE r \in AncestorsOrSelf(all, id) : ById(all, r).parent_id = NoParent

\* the ancestor-or-self whose parent is not fetched, if there is one
OrphanOf(all, id) ==
    {r \in AncestorsOrSelf(all, id) : ById(all, r).parent_id = Missing}

ForestOf(n, par, tm) ==
    [i \in 1..n |-> Comment(i, par[i], Plain, tm[i], i)]

\* created_at by position: ascending, descending, all equal, and ascending
\* with the second and third exchanged
Ascending(n) == [i \in 1..n |-> i]
TimeOrders(n) ==
    {Ascending(n), [i \in 1..n |-> n + 1 - i], [i \in 1..n |-> 1],
     [i \in 1..n |-> IF i = 2 THEN 3 ELSE IF i = 3 THEN 2 ELSE i]}

\* the lists on which the three walks of polling.ts terminate: every chain
\* of parent ids ends at a comment without parent or at a missing parent.
\* The forests come in every time order, the lists with a missing parent
\* in ascending order.
IsForestInput(n, par, tm) ==
    /\ tm = Ascending(n) \/ \A i \in 1..n : par[i] # Missing
    /\ Acyclic(ForestOf(n, par, tm))

InitForest ==
    /\ InitEngine
    /\ monitoredFiles = <<>>
    /\ remote = RemoteOneThread
    /\ \E n \in 1..MaxComments :
          \E par \in [1..n -> (0..n) \cup {Missing}], tm \in TimeOrders(n) :
             /\ IsForestInput(n, par, tm)
             /\ forest = ForestOf(n, par, tm)
    /\ targetIx = 0
    /\ walk = NoWalk

\* polling.ts 32-81, 142-153, 179-190 applied to the comment at position t
Resolve(t) ==
    /\ targetIx = 0
    /\ t \in 1..Len(forest)
    /\ targetIx' = t
    /\ walk' = [kind |-> "resolved",
                replyTo |-> replyToId(forest, forest[t]),
                historyRoot |-> HistoryRootWalk(forest, forest[t].id, forest[t]),
                threadHistory |-> buildThreadHistory(forest, forest[t], trigger),
                collected |-> threadComments(forest, forest[t]),
                shotId |-> screenshotCommentId(forest, forest[t])]
    /\ UNCHANGED <<appReady, storeVars, processedComments, isPolling,
                   pollingInterval, timers, status, cyc, remote, postLog,
                   lastFailure, failed, lastCall, forest>>

NextForest == \E t \in 1..MaxComments : Resolve(t)

SpecForest == InitForest /\ [][NextForest]_vars

TargetComment == forest[targetIx]

\* C11: in a well-formed forest the reply is posted with the id of the
\* root of the triggering comment's thread as parent; for a root comment
\* that is its own id.
C11_ReplyToRoot ==
    (walk.kind = "resolved" /\ WellFormed(forest)) =>
        /\ walk.replyTo = RootIdOf(forest, TargetComment.id)
        /\ TargetComment.parent_id = NoParent => walk.replyTo = TargetComment.id

C11_Witness ==
    /\ walk.kind = "resolved"
    /\ WellFormed(forest)
    /\ TargetComment.parent_id # NoParent
    /\ ById(forest, TargetComment.parent_id).parent_id # NoParent
    /\ walk.replyTo \notin {TargetComment.id, TargetComment.parent_id}
    /\ ById(forest, walk.replyTo).parent_id = NoParent

----------------------------------------------------------------------------
(* The three root walks of polling.ts, one loop iteration per step, on     *)
(* every list of comments: parent ids may be missing, may point at the     *)
(* comment itself, or may form a cycle.  seen holds the ids of the fetched *)
(* comments the walk has been at before its current one.                   *)

WalkKinds == {"history", "screenshot", "reply"}

\* lines 33-34, 144-147 and 180-183: the state before the first iteration
beginWalk(kind, comment) ==
    CASE kind = "history" ->
            [kind |-> kind, rootId |-> comment.id, current |-> comment.id,
             seen |-> {}, done |-> FALSE]
      [] kind = "screenshot" ->
            IF comment.parent_id # NoParent
            THEN [kind |-> kind, rootId |-> comment.parent_id,
                  current |-> comment.parent_id, seen |-> {comment.id},
                  done |-> FALSE]
            ELSE [kind |-> kind, rootId |-> comment.id, current |-> comment.id,
                  seen |-> {}, done |-> TRUE]
      [] kind = "reply" ->
            [kind |-> kind, rootId |-> comment.id, current |-> comment.id,
             seen |-> {}, done |-> comment.parent_id = NoParent]

\* lines 35-40: one test of the while condition and one pass of its body
historyWalkStep(all, w) ==
    LET cur == ById(all, w.current)
    IN  IF cur.parent_id = NoParent
        THEN [w EXCEPT !.done = TRUE]
        ELSE IF ~ HasId(all, cur.parent_id)
        THEN [w EXCEPT !.rootId = cur.parent_id, !.done = TRUE]
        ELSE [w EXCEPT !.rootId = cur.parent_id, !.current = cur.parent_id,
                       !.seen = @ \cup {w.current}]

\* lines 148-151; current is undefined when no fetched comment has its id
screenshotWalkStep(all, w) ==
    IF ~ HasId(all, w.current) \/ ById(all, w.current).parent_id = NoParent
    THEN [w EXCEPT !.done = TRUE]
    ELSE [w EXCEPT !.rootId = ById(all, w.current).parent_id,
                   !.current = ById(all, w.current).parent_id,
                   !.seen = @ \cup {w.current}]

\* lines 184-188; the result is current.id
replyWalkStep(all, w) ==
    LET cur == ById(all, w.current)
    IN  IF cur.parent_id = NoParent \/ ~ HasId(all, cur.parent_id)
        THEN [w EXCEPT !.done = TRUE]
        ELSE [w EXCEPT !.rootId = cur.parent_id, !.current = cur.parent_id,
                       !.seen = @ \cup {w.current}]

InitWalk ==
    /\ InitEngine
    /\ monitoredFiles = <<>>
    /\ remote = RemoteOneThread
    /\ \E n \in 1..MaxComments :
          \E par \in [1..n -> (0..n) \cup {Missing}] :
             forest = ForestOf(n, par, Ascending(n))
    /\ targetIx = 0
    /\ walk = NoWalk

walkFrame ==
    UNCHANGED <<appReady, storeVars, processedComments, isPolling,
                pollingInterval, timers, status, cyc, remote, postLog,
                lastFailure, failed, lastCall, forest>>

BeginWalk(kind, t) ==
    /\ targetIx = 0
    /\ t \in 1..Len(forest)
    /\ targetIx' = t
    /\ walk' = beginWalk(kind, forest[t])
    /\ walkFrame

WalkStep ==
    /\ walk.kind \in WalkKinds
    /\ ~ walk.done
    /\ walk' = CASE walk.kind = "history" -> historyWalkStep(forest, walk)
                 [] walk.kind = "screenshot" -> screenshotWalkStep(forest, walk)
                 [] walk.kind = "reply" -> replyWalkStep(forest, walk)
    /\ UNCHANGED targetIx
    /\ walkFrame

NextWalk ==
    \/ \E kind \in WalkKinds, t \in 1..MaxComments : BeginWalk(kind, t)
    \/ WalkStep

SpecWalk == InitWalk /\ [][NextWalk]_vars

\* the value the code reads after the loop
WalkResult(w) == IF w.kind = "reply" THEN w.current ELSE w.rootId

\* a finished stepwise walk yields what the walk as a function yields
WalkAgrees ==
    (walk.kind \in WalkKinds /\ walk.done) =>
        WalkResult(walk) =
            CASE walk.kind = "history" ->
                    HistoryRootWalk(forest, TargetComment.id, TargetComment)
              [] walk.kind = "screenshot" ->
                    screenshotCommentId(forest, TargetComment)
              [] walk.kind = "reply" -> replyToId(forest, TargetComment)

\* C12: root resolution terminates on every finite comment list, with
\* self-parent and cyclic parent ids as well: the walk does not go on from
\* a comment it has been at before.
C12_WalkTerminates ==
    [][WalkStep => walk.current \notin walk.seen]_vars

\* the comments of the thread below root id r, the comment with id r included
ThreadOf(all, r) == {id \in Ids(all) : r \in AncestorsOrSelf(all, id)}

\* the comments a thread history was made from (userName carries the id)
HistoryIds(history) == {history[k].userName : k \in 1..Len(history)}

\* C13: when the chain of parent ids ends at a parent that was not fetched,
\* the last comment reached is the root, for the reply target and for the
\* thread reconstruction: the history is made of that comment's thread.
C13_MissingParentRoot ==
    (walk.kind = "resolved" /\ OrphanOf(forest, TargetComment.id) # {}) =>
        \A o \in OrphanOf(forest, TargetComment.id) :
            /\ walk.replyTo = o
            /\ walk.historyRoot = o
            /\ HistoryIds(walk.threadHistory) =
                   ThreadOf(forest, o) \ {TargetComment.id}

\* A (root, earliest), B (reply to A, latest of the three), C (reply to B,
\* between them) and D (reply to C)
ExampleForest ==
    <<Comment(1, NoParent, Plain, 1, 1), Comment(2, 1, Plain, 3, 2),
      Comment(3, 2, Plain, 2, 3), Comment(4, 3, Plain, 4, 4)>>

\* C14: in a well-formed forest the thread history of a comment holds, each
\* once, the comments of its thread other than the comment itself, at any
\* depth and in any fetch order, ordered by created_at ascending; for D of
\* the example it is A, C, B.
C14_HistoryOrdered ==
    (walk.kind = "resolved" /\ WellFormed(forest)) =>
        LET h == walk.threadHistory
            thread == ThreadOf(forest, RootIdOf(forest, TargetComment.id))
        IN  /\ HistoryIds(h) = thread \ {TargetComment.id}
            /\ Len(h) = Cardinality(thread) - 1
            /\ \A k \in 1..Len(h) :
                  /\ h[k].message = ById(forest, h[k].userName).message
                  /\ \A l \in k..Len(h) :
                        ById(forest, h[k].userName).created_at
                            <= ById(forest, h[l].userName).created_at
            /\ (forest = ExampleForest /\ targetIx = 4) =>
                  [k \in 1..Len(h) |-> h[k].userName] = <<1, 3, 2>>

C14_Witness ==
    /\ walk.kind = "resolved"
    /\ forest = ExampleForest
    /\ targetIx = 4
    /\ Len(walk.threadHistory) = 3
    /\ walk.threadHistory[2].userName = 3

----------------------------------------------------------------------------
(* The filter of checkFile applied to fetched comment lists in which each  *)
(* comment is resolved or not and carries the trigger or not, under every  *)
(* ledger over their ids.                                                   *)

\* the module-level initialisers of polling.ts, before app.whenReady()
InitModule ==
    /\ appReady = FALSE
    /\ isPolling = FALSE
    /\ pollingInterval = NoTimer
    /\ timers = 0
    /\ status = InitStatus
    /\ cyc = EmptyBag
    /\ postLog = EmptyBag
    /\ lastFailure = <<>>
    /\ failed = {}
    /\ lastCall = NoCall

\* the ids of S in ascending order
RECURSIVE LedgerOf(_)
LedgerOf(S) ==
    IF S = {} THEN <<>>
    ELSE LET m == CHOOSE x \in S : \A y \in S : x <= y
         IN  <<m>> \o LedgerOf(S \ {m})

SelectInput(n, msg, res) ==
    [i \in 1..n |->
        IF res[i] THEN Resolved(Comment(i, NoParent, msg[i], i, i))
        ELSE Comment(i, NoParent, msg[i], i, i)]

InitSelect ==
    /\ InitModule
    /\ figmaToken = TRUE
    /\ anthropicKey = TRUE
    /\ trigger = <<>>
    /\ monitoredFiles = <<>>
    /\ remote = RemoteOneThread
    /\ \E n \in 1..MaxComments :
          /\ \E msg \in [1..n -> {TrigUpper, Plain}], res \in [1..n -> BOOLEAN] :
                forest = SelectInput(n, msg, res)
          /\ \E S \in SUBSET (1..n) : processedComments = LedgerOf(S)
    /\ targetIx = 0
    /\ walk = NoWalk

\* polling.ts 242-256 applied to the fetched list
Select ==
    /\ walk.kind = "none"
    /\ walk' = [kind |-> "selected",
                sel |-> newAIComments(forest, processedComments, trigger)]
    /\ UNCHANGED <<appReady, storeVars, processedComments, isPolling,
                   pollingInterval, timers, status, cyc, remote, postLog,
                   lastFailure, failed, lastCall, forest, targetIx>>

NextSelect == Select

SpecSelect == InitSelect /\ [][NextSelect]_vars

\* the positions of the fetched list whose comment is to be answered
Wanted ==
    {i \in 1..Len(forest) :
        /\ forest[i].id \notin Range(processedComments)
        /\ forest[i].resolved_at = NULL
        /\ forest[i].message = TrigUpper}

\* C15: the selection is the subsequence of the fetched comments, in their
\* order and each at most once, that are not in the ledger, not resolved
\* and carry the trigger; computing it changes neither ledger nor status.
C15_SelectionExact ==
    /\ [](walk.kind = "selected" =>
            /\ Len(walk.sel) = Cardinality(Wanted)
            /\ \A k \in 1..Len(walk.sel) :
                  /\ walk.sel[k].id \in Wanted
                  /\ walk.sel[k] = forest[walk.sel[k].id]
                  /\ \A l \in (k + 1)..Len(walk.sel) :
                        walk.sel[k].id < walk.sel[l].id)
    /\ [][walk'.kind = "selected" =>
            processedComments' = processedComments /\ status' = status]_vars

C15_Witness ==
    /\ walk.kind = "selected"
    /\ Len(walk.sel) = 2
    /\ Len(forest) = 4
    /\ \E i \in 1..4 : forest[i].resolved_at # NULL /\ forest[i].message = TrigUpper
    /\ \E i \in 1..4 :
          forest[i].id \in Range(processedComments) /\ forest[i].message = TrigUpper

----------------------------------------------------------------------------
(* The scheduler under every configuration: each key stored or not, the    *)
(* file X monitored or not, keys saved and the file added or removed while *)
(* the application runs.  No comment of X carries the trigger, so a cycle  *)
(* is a getFile and a getComments.  lastCall records the entry point each  *)
(* step called.                                                             *)

RemoteQuiet == [f \in Files |-> <<Comment(5, NoParent, Plain, 1, "bob")>>]

InitScheduler ==
    /\ InitModule
    /\ figmaToken \in BOOLEAN
    /\ anthropicKey \in BOOLEAN
    /\ trigger = <<>>
    /\ monitoredFiles \in {<<>>, <<"X">>}
    /\ processedComments = <<>>
    /\ remote = RemoteQuiet
    /\ NoForest

\* main.ts 222-247: save-settings stores the keys that were entered
SaveSettings(tok, key) ==
    /\ appReady
    /\ figmaToken' = (figmaToken \/ tok)
    /\ anthropicKey' = (anthropicKey \/ key)
    /\ UNCHANGED <<appReady, trigger, monitoredFiles, processedComments,
                   isPolling, pollingInterval, timers, status, cyc, remote,
                   postLog>>

\* main.ts 289-293 and store 167-172
AddFile(f) ==
    /\ appReady
    /\ monitoredFiles' = IF f \in Range(monitoredFiles) THEN monitoredFiles
                         ELSE Append(monitoredFiles, f)
    /\ UNCHANGED <<appReady, figmaToken, anthropicKey, trigger,
                   processedComments, isPolling, pollingInterval, timers,
                   status, cyc, remote, postLog>>

\* main.ts 295-299 and store 174-177: polling is not stopped
RemoveFile(f) ==
    /\ appReady
    /\ monitoredFiles' = SelectSeq(monitoredFiles, LAMBDA g : g # f)
    /\ UNCHANGED <<appReady, figmaToken, anthropicKey, trigger,
                   processedComments, isPolling, pollingInterval, timers,
                   status, cyc, remote, postLog>>

\* the step called entry point op, which emitted n status events
Called(op, n) ==
    /\ lastCall' = [op |-> op, emitted |-> n]
    /\ UNCHANGED <<lastFailure, failed, forest, targetIx, walk>>

\* the step is the return of an await
Returned ==
    /\ lastCall' = NoCall
    /\ UNCHANGED <<lastFailure, failed, forest, targetIx, walk>>

startEmits == startPolling(isPolling, pollingInterval, timers, status, cyc).emitted

NextScheduler ==
    \/ AppReady /\ Called("launch", IF hasCredentials /\ Len(monitoredFiles) > 0
                                    THEN startEmits ELSE 0)
    \/ StartPolling /\ Called("start", startEmits)
    \/ StopPolling /\ Called("stop", 1)
    \/ TimerFires /\ Called("timer", 1)
    \/ PollNow /\ Called("pollNow", IF hasCredentials THEN 1 ELSE 0)
    \/ \E tok \in BOOLEAN, key \in BOOLEAN :
            SaveSettings(tok, key) /\ Called("saveSettings", 0)
    \/ AddFile("X") /\ Called("addFile", 0)
    \/ RemoveFile("X") /\ Called("removeFile", 0)
    \/ \E c \in InFlight, ok \in BOOLEAN : GetFileReturns(c, ok) /\ Returned
    \/ \E c \in InFlight, ok \in BOOLEAN : GetCommentsReturns(c, ok) /\ Returned

SpecScheduler == InitScheduler /\ [][NextScheduler]_vars

Running == isPolling
Stopped == ~ isPolling
Configured == hasCredentials /\ Len(monitoredFiles) > 0

\* C16: the scheduler moves from Stopped to Running only when both keys
\* are stored and a file is monitored; a start from the tray, from IPC or
\* at launch without them leaves it Stopped, with no timer and isActive
\* false.
C16_StartGuarded ==
    [][(Stopped /\ ~ Configured) =>
          /\ Stopped'
          /\ pollingInterval' = NoTimer
          /\ timers' = 0
          /\ ~ status'.isActive]_vars

\* the step begins exactly one cycle, which waits for its first getFile
OneCycleBegun ==
    \E r \in InFlight' :
        /\ r.pc = "getFile"
        /\ r.fi = 1
        /\ r.files = monitoredFiles
        /\ cyc' = cyc (+) SetToBag({r})

\* the step begins no cycle and records the configuration error
NoCycleBegun ==
    /\ cyc' = cyc
    /\ status'.lastError = IF hasCredentials THEN ErrNoFiles ELSE ErrCredentials

StartSucceeds == lastCall'.op \in {"start", "launch"} /\ Stopped /\ Running'
TimerFired == lastCall'.op = "timer" /\ Running

\* C17 as stated: a start that succeeds begins exactly one cycle at once
\* and arms exactly one timer; while Running every firing of the timer
\* begins exactly one cycle.
C17_Original ==
    [][/\ StartSucceeds => (OneCycleBegun /\ timers = 0 /\ timers' = 1)
       /\ TimerFired => OneCycleBegun]_vars

\* C17: a start that succeeds arms exactly one timer; it begins exactly one
\* cycle at once, and while Running every firing of the timer begins
\* exactly one cycle, if both keys are stored and a file is monitored at
\* that moment; otherwise the call begins no cycle and lastError records
\* the configuration error.
C17_StartAndTimer ==
    [][/\ StartSucceeds =>
             /\ timers = 0 /\ timers' = 1
             /\ pollingInterval' # NoTimer
             /\ IF Configured THEN OneCycleBegun ELSE NoCycleBegun
       /\ TimerFired => IF Configured THEN OneCycleBegun ELSE NoCycleBegun]_vars

C17_Witness ==
    /\ lastCall.op = "timer"
    /\ Running
    /\ Configured
    /\ timers = 1
    /\ BagCardinality(cyc) = 2
    /\ \E r \in InFlight : r.pc = "getFile" /\ r.fi = 1

\* C18: a start while Running does nothing: it begins no cycle, arms no
\* second timer, leaves the status as it is and emits no status event; at
\* most one timer is armed at any time.
C18_StartWhileRunning ==
    /\ [](timers <= 1 /\ (timers = 1 <=> pollingInterval # NoTimer))
    /\ [][(lastCall'.op = "start" /\ Running) =>
             /\ Running'
             /\ cyc' = cyc
             /\ timers' = timers
             /\ pollingInterval' = pollingInterval
             /\ status' = status
             /\ lastCall'.emitted = 0]_vars

C18_Witness ==
    /\ lastCall = [op |-> "start", emitted |-> 0]
    /\ Running
    /\ timers = 1
    /\ status.isActive
    /\ BagCardinality(cyc) = 1

\* cycle r takes its next step
CycleStep(r) ==
    \/ \E ok \in BOOLEAN : GetFileReturns(r, ok)
    \/ \E ok \in BOOLEAN : GetCommentsReturns(r, ok)
    \/ \E out \in {"image", "none", "throws"} : ScreenshotReturns(r, out)
    \/ \E ok \in BOOLEAN, text \in ReplyTexts : GenerateReturns(r, ok, text)
    \/ \E out \in PostOutcomes : PostReturns(r, out)

\* the step is a call of stopPolling that is not part of Quit
Stops == Running /\ Stopped' /\ appReady'

\* C19: a stop cancels the timer, and while Stopped no timer is armed and
\* no timer firing begins a cycle; the stop leaves the cycles in flight,
\* the ledger and the posted replies as they are, and a cycle in flight
\* while Stopped goes on with its next step.
C19_StopCancelsTimer ==
    /\ [](Stopped => /\ timers = 0
                     /\ pollingInterval = NoTimer
                     /\ \A r \in InFlight : ENABLED CycleStep(r))
    /\ [][/\ Stopped => ~ TimerFires
          /\ Stops => /\ cyc' = cyc
                      /\ processedComments' = processedComments
                      /\ postLog' = postLog
                      /\ ~ status'.isActive]_vars

C19_Witness ==
    /\ appReady
    /\ Stopped
    /\ ~ status.isActive
    /\ timers = 0
    /\ \E r \in InFlight : r.pc = "post"

ManualTrigger == lastCall'.op = "pollNow" /\ Running

TimerUntouched ==
    /\ timers' = timers
    /\ pollingInterval' = pollingInterval
    /\ Running'
    /\ status'.isActive = status.isActive

\* C20 as stated: a manual trigger while Running begins one more cycle,
\* leaves the timer as it is, and the scheduler stays Running.
C20_Original ==
    [][ManualTrigger => (OneCycleBegun /\ TimerUntouched)]_vars

\* C20: a manual trigger while Running leaves the timer as it is and the
\* scheduler Running; it begins one more cycle if a file is monitored at
\* that moment, and otherwise begins none and sets lastError to "No files
\* to monitor".
C20_ManualTrigger ==
    [][ManualTrigger =>
          /\ TimerUntouched
          /\ IF Len(monitoredFiles) > 0
             THEN OneCycleBegun
             ELSE cyc' = cyc /\ status'.lastError = ErrNoFiles]_vars

C20_Witness ==
    /\ lastCall.op = "pollNow"
    /\ Running
    /\ Len(monitoredFiles) > 0
    /\ timers = 1
    /\ pollingInterval = DefaultInterval
    /\ BagCardinality(cyc) = 2

----------------------------------------------------------------------------
(* The ledger of the store under sequences of addProcessedComment calls,   *)
(* from ledgers that are empty, short, or filled up to the retention cap.   *)

\* the ledger after the ids 1..k were marked in that order
FilledLedger(k) == [i \in 1..k |-> i]

\* ids to mark: the oldest entries, the newest entry of a full ledger, and
\* ids that no initial ledger holds
MarkIds == {1, 2, LedgerCap, LedgerCap + 1, LedgerCap + 2}

InitLedger ==
    /\ InitModule
    /\ figmaToken = TRUE
    /\ anthropicKey = TRUE
    /\ trigger = <<>>
    /\ monitoredFiles = <<>>
    /\ remote = RemoteOneThread
    /\ processedComments \in
          {FilledLedger(k) : k \in {0, 1, 2, LedgerCap - 2, LedgerCap - 1, LedgerCap}}
    /\ forest = <<>>
    /\ targetIx = 0
    /\ walk = NoWalk

MarksOf(w) == IF w.kind = "marked" THEN w.marks ELSE 0

\* store 140-147 called with commentId
MarkProcessed(commentId) ==
    /\ MarksOf(walk) < MaxMarks
    /\ processedComments' = addProcessedComment(processedComments, commentId)
    /\ walk' = [kind |-> "marked", id |-> commentId, marks |-> MarksOf(walk) + 1]
    /\ UNCHANGED <<appReady, storeVars, isPolling, pollingInterval, timers,
                   status, cyc, remote, postLog, lastFailure, failed, lastCall,
                   forest, targetIx>>

NextLedger == \E commentId \in MarkIds : MarkProcessed(commentId)

SpecLedger == InitLedger /\ [][NextLedger]_vars

\* C21: the ledger never holds more than the retention cap of ids and
\* holds no id twice; marking an id that is present changes neither its
\* content nor its order.
C21_LedgerCapped ==
    /\ [](/\ Len(processedComments) <= LedgerCap
          /\ Cardinality(Range(processedComments)) = Len(processedComments))
    /\ [][(walk'.kind = "marked" /\ walk'.id \in Range(processedComments)) =>
             processedComments' = processedComments]_vars

C21_Witness ==
    /\ walk.kind = "marked"
    /\ walk.marks = MaxMarks
    /\ Len(processedComments) = LedgerCap
    /\ processedComments[1] = 3
    /\ processedComments[LedgerCap] = walk.id

----------------------------------------------------------------------------
(* The status record of polling.ts as an object on a heap.  walk.objs      *)
(* holds the PollingStatus objects that were allocated, walk.cur is the    *)
(* object the module variable status refers to, walk.dates holds the Date  *)
(* objects, and the lastCheck field of an object is the index of its Date  *)
(* (0 for null).  walk.copies are the objects getStatus returned and       *)
(* walk.calls the arguments of the callback invocations of the last call.  *)
(* The variable status is the content of the object walk.cur.              *)

NoDate == 0

InitStatusObj == [InitStatus EXCEPT !.lastCheck = NoDate]

\* the content of object id, with the time of its Date
StatusView(w, id) ==
    [w.objs[id] EXCEPT !.lastCheck = IF @ = NoDate THEN NULL ELSE w.dates[@]]

\* the calls of updateStatus in polling.ts: lines 284, 322, 299, 198, 341
UpdateKinds == {"noFiles", "started", "cycleEnd", "replied", "stopped"}

\* the object { ...o, ...updates } of line 115
SpreadUpdate(o, kind, newDate) ==
    CASE kind = "noFiles" -> [o EXCEPT !.lastError = ErrNoFiles]
      [] kind = "started" -> [o EXCEPT !.isActive = TRUE, !.lastError = NULL]
      [] kind = "cycleEnd" -> [o EXCEPT !.lastCheck = newDate]
      [] kind = "replied" -> [o EXCEPT !.commentsProcessed = @ + 1]
      [] kind = "stopped" -> [o EXCEPT !.isActive = FALSE]

updateStatus_InPlaceM(w, kind) ==
    LET dates2 == IF kind = "cycleEnd" THEN Append(w.dates, "date") ELSE w.dates
    IN  [w EXCEPT !.objs[w.cur] = SpreadUpdate(@, kind, Len(dates2)),
                  !.dates = dates2,
                  !.calls = IF w.registered THEN <<w.cur>> ELSE <<>>]

\* lines 114-117: a new object replaces status and is handed to the
\* callback, if one is registered
updateStatus(w, kind) ==
    LET dates2 == IF kind = "cycleEnd" THEN Append(w.dates, "date") ELSE w.dates
        id == Len(w.objs) + 1
    IN  [w EXCEPT !.objs = Append(@, SpreadUpdate(w.objs[w.cur], kind, Len(dates2))),
                  !.dates = dates2,
                  !.cur = id,
                  !.calls = IF w.registered THEN <<id>> ELSE <<>>]

\* lines 355-357: { ...status }, a new object with the same field values,
\* the reference to the Date among them
getStatus(w) ==
    [w EXCEPT !.objs = Append(@, w.objs[w.cur]),
              !.copies = @ \cup {Len(w.objs) + 1},
              !.calls = <<>>]

InitStatusHeap ==
    /\ InitModule
    /\ figmaToken = TRUE
    /\ anthropicKey = TRUE
    /\ trigger = <<>>
    /\ monitoredFiles = <<"X">>
    /\ processedComments = <<>>
    /\ remote = RemoteQuiet
    /\ forest = <<>>
    /\ targetIx = 0
    /\ \E registered \in BOOLEAN :
          walk = [kind |-> "status", objs |-> <<InitStatusObj>>, dates |-> <<>>,
                  cur |-> 1, registered |-> registered, copies |-> {},
                  calls |-> <<>>]

statusFrame ==
    UNCHANGED <<appReady, storeVars, processedComments, isPolling,
                pollingInterval, timers, cyc, remote, postLog, lastFailure,
                failed, forest, targetIx>>

\* the engine calls updateStatus
UpdateStatus(kind) ==
    /\ Len(walk.objs) <= MaxUpdates
    /\ walk' = updateStatus(walk, kind)
    /\ status' = StatusView(walk', walk'.cur)
    /\ lastCall' = [op |-> "updateStatus", kind |-> kind,
                    emitted |-> Len(walk'.calls)]
    /\ statusFrame

\* an observer calls getStatus
GetStatus ==
    /\ Len(walk.objs) <= MaxUpdates
    /\ walk' = getStatus(walk)
    /\ status' = StatusView(walk', walk'.cur)
    /\ lastCall' = [op |-> "getStatus", emitted |-> 0]
    /\ statusFrame

\* what an observer assigns to a field of a record it got from getStatus
Assigned(o, field) ==
    CASE field = "isActive" -> [o EXCEPT !.isActive = ~ @]
      [] field = "lastError" -> [o EXCEPT !.lastError = "edited"]
      [] field = "commentsProcessed" -> [o EXCEPT !.commentsProcessed = 0]
      [] field = "lastCheck" -> [o EXCEPT !.lastCheck = NoDate]

\* an observer assigns to a field of a record it got from getStatus
ObserverAssigns(id, field) ==
    /\ id \in walk.copies
    /\ walk' = [walk EXCEPT !.objs[id] = Assigned(@, field), !.calls = <<>>]
    /\ status' = StatusView(walk', walk'.cur)
    /\ lastCall' = [op |-> "observerAssigns", emitted |-> 0]
    /\ statusFrame

\* an observer calls setTime on the lastCheck of a record it got from
\* getStatus
ObserverSetsTime(id) ==
    /\ id \in walk.copies
    /\ walk.objs[id].lastCheck # NoDate
    /\ walk' = [walk EXCEPT !.dates[walk.objs[id].lastCheck] = "changed",
                            !.calls = <<>>]
    /\ status' = StatusView(walk', walk'.cur)
    /\ lastCall' = [op |-> "observerSetsTime", emitted |-> 0]
    /\ statusFrame

NextStatus ==
    \/ \E kind \in UpdateKinds : UpdateStatus(kind)
    \/ GetStatus
    \/ \E id \in 1..(MaxUpdates + 1),
          field \in {"isActive", "lastError", "commentsProcessed", "lastCheck"} :
            ObserverAssigns(id, field)
    \/ \E id \in 1..(MaxUpdates + 1) : ObserverSetsTime(id)

SpecStatus == InitStatusHeap /\ [][NextStatus]_vars

\* the status an update of the given kind makes of status st, field by
\* field
Updated(st, kind) ==
    [isActive |-> IF kind = "started" THEN TRUE
                  ELSE IF kind = "stopped" THEN FALSE ELSE st.isActive,
     lastCheck |-> IF kind = "cycleEnd" THEN "date" ELSE st.lastCheck,
     filesMonitored |-> st.filesMonitored,
     commentsProcessed |-> IF kind = "replied" THEN st.commentsProcessed + 1
                           ELSE st.commentsProcessed,
     lastError |-> IF kind = "started" THEN NULL
                   ELSE IF kind = "noFiles" THEN ErrNoFiles ELSE st.lastError]

EngineUpdates == lastCall'.op = "updateStatus"
ObserverChanges == lastCall'.op \in {"observerAssigns", "observerSetsTime"}

\* an update allocates the new record, leaves every record that existed
\* as it was, applies every field of the update, and calls the registered
\* callback once with the new record
WholesaleUpdate ==
    EngineUpdates =>
        /\ walk'.cur = Len(walk.objs) + 1
        /\ \A id \in 1..Len(walk.objs) : StatusView(walk', id) = StatusView(walk, id)
        /\ status' = Updated(status, lastCall'.kind)
        /\ walk.registered =>
              /\ Len(walk'.calls) = 1
              /\ StatusView(walk', walk'.calls[1]) = status'
        /\ ~ walk.registered => walk'.calls = <<>>

\* C22 as stated: every mutation of the status replaces the record
\* wholesale and calls the registered callback exactly once with the
\* complete new snapshot; no observer sees part of an update, and a change
\* of the value getStatus returned does not change the status.
C22_Original ==
    [][/\ WholesaleUpdate
       /\ lastCall'.op = "getStatus" => status' = status
       /\ ObserverChanges => status' = status]_vars

\* C22: every mutation of the status replaces the record wholesale and
\* calls the registered callback exactly once with the complete new
\* snapshot; no observer sees part of an update; getStatus returns a new
\* record, so an assignment to a field of the returned record does not
\* change the status.  (The Date of lastCheck is shared with the returned
\* record.)
C22_StatusSnapshots ==
    [][/\ WholesaleUpdate
       /\ lastCall'.op = "getStatus" =>
             /\ status' = status
             /\ walk'.copies \cap {walk'.cur} = {}
       /\ lastCall'.op = "observerAssigns" => status' = status]_vars

C22_Witness ==
    /\ lastCall.op = "observerAssigns"
    /\ walk.kind = "status"
    /\ walk.registered
    /\ walk.cur = 3
    /\ status.isActive
    /\ status.lastCheck = "date"
    /\ \E id \in walk.copies : ~ walk.objs[id].isActive /\ walk.objs[id].lastCheck # NoDate

ConfigErrors == {ErrCredentials, ErrNoFiles}

\* the step calls pollOnce
PollOnceCalled ==
    \/ lastCall'.op = "timer"
    \/ lastCall'.op = "pollNow" /\ hasCredentials
    \/ lastCall'.op \in {"start", "launch"} /\ Stopped /\ Running'

\* the last step called pollOnce, which returned on a configuration error
AttemptFailed ==
    /\ lastCall.op \in {"timer", "pollNow", "start"}
    /\ ~ Configured
    /\ status.lastError \in ConfigErrors

\* C23: a cycle that is started while a key is missing or no file is
\* monitored does not run: it makes no request, it records the
\* configuration error in lastError, and the attempt is not repeated
\* automatically, that is, by the timer.
C23_ConfigErrorNoRetry ==
    [][/\ (PollOnceCalled /\ ~ Configured) =>
             (NoCycleBegun /\ remote' = remote /\ postLog' = postLog)
       /\ AttemptFailed => lastCall'.op # "timer"]_vars

\* the step begins cycle r
Begun(r) ==
    /\ r \in InFlight'
    /\ r.pc = "getFile"
    /\ r.fi = 1
    /\ cyc' = cyc (+) SetToBag({r})

\* C24: the step in which a cycle passes the configuration checks sets
\* filesMonitored to the number of monitored files, and the step in which
\* a cycle ends sets lastCheck, whatever happened to its files, also when
\* the fetch of each of them failed.
C24_CountAndTimestamp ==
    [][/\ \A r \in InFlight' :
             Begun(r) => /\ status'.filesMonitored = Len(monitoredFiles)
                         /\ r.files = monitoredFiles
       /\ \A r \in InFlight :
             Ended(r) => status'.lastCheck = "date"]_vars

\* X is the only file and holds qualifying comments: with nothing posted,
\* no failure of processComment since lastError was cleared and no cycle in
\* flight, the cycle that cleared lastError ended after the fetch of X
\* failed
C24_Witness ==
    /\ cyc = EmptyBag
    /\ status.lastCheck = "date"
    /\ status.filesMonitored = 1
    /\ status.lastError = NULL
    /\ postLog = EmptyBag
    /\ processedComments = <<>>
    /\ lastFailure = <<>>


----------------------------------------------------------------------------
(* getScreenshotForComment await by await, inside the engine.  walk holds  *)
(* the frame of the call while it runs and the context handed to           *)
(* generateResponse afterwards; its cause field records which return of    *)
(* getScreenshotForComment was taken.  One cycle runs at a time.           *)

\* the document tree of the monitored file: id |-> parent and type
Doc ==
    [n \in {"d", "p", "f", "g", "r", "t"} |->
        CASE n = "d" -> [parent |-> NULL, type |-> "DOCUMENT"]
          [] n = "p" -> [parent |-> "d", type |-> "CANVAS"]
          [] n = "f" -> [parent |-> "p", type |-> "FRAME"]
          [] n = "g" -> [parent |-> "f", type |-> "GROUP"]
          [] n = "r" -> [parent |-> "g", type |-> "RECTANGLE"]
          [] OTHER   -> [parent |-> "p", type |-> "TEXT"]]

\* the node ids a comment's client_meta can carry: the nodes of the
\* document, a node that is no longer in it, or none
Pins == DOMAIN Doc \cup {"gone", NULL}

FrameLike == {"FRAME", "COMPONENT", "COMPONENT_SET", "GROUP"}

\* system-prompt.ts 73-92: the nodes from the root to targetId, <<>> for
\* null; ids are unique, so the depth-first search finds the chain of
\* parents
RECURSIVE findPathToNode(_, _)
findPathToNode(doc, targetId) ==
    IF targetId \notin DOMAIN doc THEN <<>>
    ELSE IF doc[targetId].parent = NULL THEN <<targetId>>
    ELSE findPathToNode(doc, doc[targetId].parent) \o <<targetId>>

\* system-prompt.ts 98-120
findBestFrameToScreenshot(doc, nodeId) ==
    LET path == findPathToNode(doc, nodeId)
        frames == {i \in 3..Len(path) : doc[path[i]].type \in FrameLike}
    IN  IF Len(path) < 3 THEN NULL
        ELSE IF frames # {}
        THEN path[CHOOSE i \in frames : \A j \in frames : j <= i]
        ELSE path[3]

\* the call of getScreenshotForComment for comment id, awaiting pc
ResolverFrame(id, pc, nodeId, parentFrameId) ==
    [kind |-> "resolver", commentId |-> id, pc |-> pc, nodeId |-> nodeId,
     parentFrameId |-> parentFrameId]

\* polling.ts 162-172: the context built from what the call returned
ContextOf(id, nodeId, parentFrameId, imageBase64, cause) ==
    [kind |-> "context", commentId |-> id, nodeId |-> nodeId,
     parentFrameId |-> parentFrameId, imageBase64 |-> imageBase64,
     cause |-> cause]

\* the call threw: no context is built
Aborted(id, cause) == [kind |-> "aborted", commentId |-> id, cause |-> cause]

\* system-prompt.ts 148-164: await getComment returns
afterGetComment(id, out, found, pin) ==
    IF out = "throws" THEN [w |-> Aborted(id, "getCommentThrows"), out |-> "throws"]
    ELSE IF ~ found
    THEN [w |-> ContextOf(id, NULL, NULL, NULL, "noComment"), out |-> "none"]
    ELSE IF pin = NULL
    THEN [w |-> ContextOf(id, NULL, NULL, NULL, "noPin"), out |-> "none"]
    ELSE [w |-> ResolverFrame(id, "getFile", pin, NULL), out |-> "pending"]

\* system-prompt.ts 168-175: await getFile returns
afterGetFile(w, ok) ==
    IF ~ ok THEN [w |-> Aborted(w.commentId, "getFileThrows"), out |-> "throws"]
    ELSE LET parentFrameId == findBestFrameToScreenshot(Doc, w.nodeId)
         IN  IF parentFrameId = NULL
             THEN [w |-> ContextOf(w.commentId, w.nodeId, NULL, NULL, "noFrame"),
                   out |-> "none"]
             ELSE [w |-> ResolverFrame(w.commentId, "getImages", w.nodeId,
                                       parentFrameId),
                   out |-> "pending"]

afterGetImages_NoCatchM(w, out) ==
    CASE out = "url" ->
            [w |-> ResolverFrame(w.commentId, "download", w.nodeId, w.parentFrameId),
             out |-> "pending"]
      [] out = "noUrl" ->
            [w |-> ContextOf(w.commentId, w.nodeId, w.parentFrameId, NULL, "noUrl"),
             out |-> "none"]
      [] OTHER ->
            [w |-> ContextOf(w.commentId, w.nodeId, w.parentFrameId, NULL,
                             "exportThrows"),
             out |-> "throws"]

\* system-prompt.ts 178-188, 193-196: await getImages returns
afterGetImages(w, out) ==
    CASE out = "url" ->
            [w |-> ResolverFrame(w.commentId, "download", w.nodeId, w.parentFrameId),
             out |-> "pending"]
      [] out = "noUrl" ->
            [w |-> ContextOf(w.commentId, w.nodeId, w.parentFrameId, NULL, "noUrl"),
             out |-> "none"]
      [] OTHER ->
            [w |-> ContextOf(w.commentId, w.nodeId, w.parentFrameId, NULL,
                             "exportThrows"),
             out |-> "none"]

\* system-prompt.ts 190-196: await downloadAsBase64 returns
afterDownload(w, ok) ==
    IF ok
    THEN [w |-> ContextOf(w.commentId, w.nodeId, w.parentFrameId, "png", "none"),
          out |-> "image"]
    ELSE [w |-> ContextOf(w.commentId, w.nodeId, w.parentFrameId, NULL,
                          "downloadThrows"),
          out |-> "none"]

\* the history variables other than walk
KeepsHistory == UNCHANGED <<lastCall, forest, targetIx, lastFailure, failed>>

\* an await of getScreenshotForComment returns with res: the call goes on,
\* or it ends and processComment goes on (polling.ts 155-176, 218-221)
ResolverStep(c, res) ==
    /\ c.pc = "screenshot"
    /\ walk' = res.w
    /\ IF res.out = "pending"
       THEN UNCHANGED <<appReady, storeVars, processedComments, isPolling,
                        pollingInterval, timers, status, cyc, remote, postLog>>
       ELSE ScreenshotStep(c, res.out)
    /\ KeepsHistory

\* figma-api.ts 57-64: getComment fetches the comments of the file and
\* looks for the id
GetCommentReturns(c, out, pin) ==
    /\ walk.kind # "resolver"
    /\ ResolverStep(c, afterGetComment(c.sel[c.ci].id, out,
                                       HasId(remote[c.files[c.fi]], c.shotId), pin))

ResolverFileReturns(c, ok) ==
    /\ walk.kind = "resolver"
    /\ walk.pc = "getFile"
    /\ ResolverStep(c, afterGetFile(walk, ok))

GetImagesReturns(c, out) ==
    /\ walk.kind = "resolver"
    /\ walk.pc = "getImages"
    /\ ResolverStep(c, afterGetImages(walk, out))

DownloadReturns(c, ok) ==
    /\ walk.kind = "resolver"
    /\ walk.pc = "download"
    /\ ResolverStep(c, afterDownload(walk, ok))

\* a reply in X whose parent is not among the fetched comments
RemoteOrphan ==
    [f \in Files |-> IF f = "X" THEN <<Comment(3, Missing, TrigLower, 3, "bob")>>
                     ELSE <<>>]

InitResolver ==
    /\ InitEngine
    /\ forest = <<>>
    /\ targetIx = 0
    /\ walk = NoWalk
    /\ monitoredFiles = <<"X">>
    /\ remote \in {RemoteTwoInThread, RemoteOrphan}

KeepsWalk == KeepsHistory /\ walk' = walk

NextResolver ==
    \/ AppReady /\ KeepsWalk
    \/ cyc = EmptyBag /\ TimerFires /\ KeepsWalk
    \/ cyc = EmptyBag /\ PollNow /\ KeepsWalk
    \/ \E c \in InFlight, ok \in BOOLEAN : GetFileReturns(c, ok) /\ KeepsWalk
    \/ \E c \in InFlight, ok \in BOOLEAN : GetCommentsReturns(c, ok) /\ KeepsWalk
    \/ \E c \in InFlight, out \in {"returns", "throws"}, pin \in Pins :
            GetCommentReturns(c, out, pin)
    \/ \E c \in InFlight, ok \in BOOLEAN : ResolverFileReturns(c, ok)
    \/ \E c \in InFlight, out \in {"url", "noUrl", "throws"} : GetImagesReturns(c, out)
    \/ \E c \in InFlight, ok \in BOOLEAN : DownloadReturns(c, ok)
    \/ \E c \in InFlight, ok \in BOOLEAN, text \in ReplyTexts :
            GenerateReturns(c, ok, text) /\ KeepsWalk
    \/ \E c \in InFlight, out \in PostOutcomes : PostReturns(c, out) /\ KeepsWalk

SpecResolver == InitResolver /\ [][NextResolver]_vars

\* the returns of getScreenshotForComment for a comment without a pin,
\* without a frame to export, and with a failed export
Degradations == {"noPin", "noFrame", "noUrl", "exportThrows", "downloadThrows"}

\* the context of the comment that r is processing came from a degraded call
Degraded(r) ==
    /\ walk.kind = "context"
    /\ walk.cause \in Degradations
    /\ r.pc \in {"generate", "post"}
    /\ r.sel[r.ci].id = walk.commentId

\* C25: a call of getScreenshotForComment that ends for want of a pin, for
\* want of a frame to export or on a failed export hands generateResponse a
\* context with a null image in the same step and leaves the status, and
\* with it lastError, alone; with that context a generateResponse that
\* returns leads to the post, and a post that returns posts the reply,
\* marks the comment and counts it without setting lastError.
C25_DegradationContinues ==
    [][\A r \in InFlight :
          /\ (/\ r.pc = "screenshot"
              /\ walk'.kind = "context"
              /\ walk' # walk
              /\ walk'.cause \in Degradations)
                => /\ walk'.imageBase64 = NULL
                   /\ status' = status
                   /\ \E r2 \in InFlight' :
                         /\ Stepped(r, r2)
                         /\ r2.pc = "generate"
                         /\ r2.ci = r.ci
                         /\ r2.fi = r.fi
          /\ (Degraded(r) /\ \E text \in ReplyTexts : GenerateReturns(r, TRUE, text))
                => \E r2 \in InFlight' :
                      /\ Stepped(r, r2)
                      /\ r2.pc = "post"
                      /\ r2.ci = r.ci
                      /\ r2.fi = r.fi
          /\ (Degraded(r) /\ PostReturns(r, "ok"))
                => /\ walk.commentId \in Range(processedComments')
                   /\ postLog' = postLog (+) SetToBag({walk.commentId})
                   /\ status'.commentsProcessed = status.commentsProcessed + 1
                   /\ status'.lastError = status.lastError]_vars

\* the comment pinned to a page, which has no frame to export, got its
\* reply and is in the ledger, and no error was recorded
C25_Witness ==
    /\ walk.kind = "context"
    /\ walk.cause = "noFrame"
    /\ walk.imageBase64 = NULL
    /\ walk.commentId \in Range(processedComments)
    /\ walk.commentId \in BagToSet(postLog)
    /\ status.lastError = NULL
    /\ status.commentsProcessed = 1


----------------------------------------------------------------------------
(* Two monitored files with three triggering comments between them, and    *)
(* one cycle at a time.                                                    *)

\* X holds a triggering comment with a triggering reply, Y a triggering
\* comment
RemoteBothFiles ==
    [f \in Files |->
        IF f = "X" THEN RemoteTwoInThread["X"]
                   ELSE <<Comment(4, NoParent, TrigLower, 4, "ann")>>]

InitSequential ==
    /\ InitEngine
    /\ NoForest
    /\ monitoredFiles = <<"X", "Y">>
    /\ remote = RemoteBothFiles

\* a cycle is over before the next one is begun
NextSequential ==
    \/ AppReady /\ NoFailure
    \/ cyc = EmptyBag /\ TimerFires /\ NoFailure
    \/ cyc = EmptyBag /\ PollNow /\ NoFailure
    \/ \E c \in InFlight, ok \in BOOLEAN : GetFileReturns(c, ok) /\ NoFailure
    \/ \E c \in InFlight, ok \in BOOLEAN : GetCommentsReturns(c, ok) /\ NoFailure
    \/ \E c \in InFlight, out \in {"image", "none", "throws"} :
            ScreenshotReturnsF(c, out, FALSE)
    \/ \E c \in InFlight, ok \in BOOLEAN, text \in ReplyTexts :
            GenerateReturnsF(c, ok, text, FALSE)
    \/ \E c \in InFlight, out \in PostOutcomes : PostReturnsF(c, out, FALSE)

SpecSequential == InitSequential /\ [][NextSequential]_vars

\* the members of sel are in the order in which all holds them
InFetchOrder(sel, all) ==
    sel = SelectSeq(all, LAMBDA cm : cm \in Range(sel))

\* the step is the return of an await of checkFile before its loop
FetchReturned(r) == r.pc \in {"getFile", "getComments"}

\* the step is the return of an await of processComment
CommentReturned(r) == r.pc \in Processing

\* C26: a step of a cycle keeps its list of files and either stays with its
\* file or goes to the next one in the list, and within a file either
\* stays with its comment or goes to the next one of the selection, which
\* is in fetch order.  The first await for the next comment is begun by
\* the step in which an await of the previous comment returned, or the
\* fetch of the comments for the first one; the first await for the next
\* file by the step in which an await of the last selected comment or of
\* the fetch returned.
C26_Sequential ==
    [][\A r \in InFlight, r2 \in InFlight' :
          Stepped(r, r2) =>
             /\ r2.files = r.files
             /\ r2.fi \in {r.fi, r.fi + 1}
             /\ r2.ci >= 1 => InFetchOrder(r2.sel, r2.comments)
             /\ r2.fi = r.fi =>
                   /\ r2.ci \in {r.ci, r.ci + 1}
                   /\ r.ci >= 1 => r2.sel = r.sel /\ r2.comments = r.comments
                   /\ r2.ci = r.ci + 1 =>
                         /\ r2.pc = "screenshot"
                         /\ IF r.ci = 0 THEN r.pc = "getComments"
                            ELSE CommentReturned(r)
                   /\ (r2.ci = r.ci /\ r.ci >= 1) =>
                         <<r.pc, r2.pc>> \in {<<"screenshot", "generate">>,
                                              <<"generate", "post">>}
             /\ r2.fi = r.fi + 1 =>
                   /\ r2.pc = "getFile"
                   /\ r2.ci = 0
                   /\ \/ FetchReturned(r)
                      \/ CommentReturned(r) /\ r.ci = Len(r.sel)]_vars

\* a cycle is at the comment of Y after the two comments of X got their
\* replies, the root before its reply
C26_Witness ==
    \E r \in InFlight :
        /\ r.fi = 2
        /\ r.ci = 1
        /\ r.pc = "generate"
        /\ processedComments = <<1, 3>>


----------------------------------------------------------------------------
(* shouldTriggerAI on the texts and triggers of a small alphabet.  walk    *)
(* holds the text and, once matched, the result.                           *)

MaxText == 3
MaxTrig == 2

Chars == {"@", "a", "A", "sigma", "SIGMA"}

\* the strings of at most n characters
Strings(n) == UNION {[1..k -> Chars] : k \in 0..n}

InitTrigger ==
    /\ InitModule
    /\ figmaToken = TRUE
    /\ anthropicKey = TRUE
    /\ trigger = <<>>
    /\ monitoredFiles = <<>>
    /\ processedComments = <<>>
    /\ remote = RemoteQuiet
    /\ forest = <<>>
    /\ targetIx = 0
    /\ \E text \in Strings(MaxText) : walk = [kind |-> "text", text |-> text]

triggerFrame ==
    UNCHANGED <<appReady, figmaToken, anthropicKey, monitoredFiles,
                processedComments, isPolling, pollingInterval, timers, status,
                cyc, remote, postLog, lastFailure, failed, lastCall, forest,
                targetIx>>

\* main.ts 273-275 and store 111-113: the trigger is stored in lower case
SetTrigger(typed) ==
    /\ trigger' = toLowerCase(typed)
    /\ walk' = [kind |-> "text", text |-> walk.text]
    /\ triggerFrame

\* polling.ts 15-19 applied to the text
Match ==
    /\ walk.kind = "text"
    /\ walk' = [kind |-> "match", text |-> walk.text,
                result |-> shouldTriggerAI(walk.text, trigger)]
    /\ trigger' = trigger
    /\ triggerFrame

NextTrigger ==
    \/ \E typed \in Strings(MaxTrig) : SetTrigger(typed)
    \/ Match

SpecTrigger == InitTrigger /\ [][NextTrigger]_vars

\* the character without its case: both lower-case sigmas are the lower
\* case of the capital sigma
foldChar(ch) == IF ch \in {"SIGMA", "fsigma"} THEN "sigma" ELSE lowerChar(ch)
foldCase(s) == [i \in 1..Len(s) |-> foldChar(s[i])]

\* the strings that differ from s in the case of their letters at most
SameLetters(s) == {t \in Strings(Len(s)) : foldCase(t) = foldCase(s)}

\* C27: the result of the match is TRUE exactly when the trigger in force,
\* letter case set aside, is a run of consecutive characters of the text,
\* letter case set aside, wherever in the text the run is; and it is the
\* result for every text and every typed trigger with the same letters in
\* another case.
C27_TriggerMatch ==
    walk.kind = "match" =>
        /\ walk.result = includes(foldCase(walk.text), foldCase(getTrigger(trigger)))
        /\ \A t \in SameLetters(walk.text) :
              shouldTriggerAI(t, trigger) = walk.result
        /\ \A typed \in SameLetters(trigger) :
              shouldTriggerAI(walk.text, toLowerCase(typed)) = walk.result


----------------------------------------------------------------------------
(* The comments collected for a thread, under SpecForest *)

\* the last comment reached on the chain of parent ids of id: the one
\* without a parent, or the one whose parent was not fetched
LastReached(all, id) ==
    CHOOSE r \in AncestorsOrSelf(all, id) :
        ById(all, r).parent_id \in {NoParent, Missing}

\* the ids of the comments of a list
IdsOf(list) == {list[k].id : k \in 1..Len(list)}

\* the fetched list in another order
Orders(n) == {p \in [1..n -> 1..n] : \A i, j \in 1..n : p[i] = p[j] => i = j}
Permuted(all, p) == [i \in 1..Len(all) |-> all[p[i]]]

\* C28: the comments collected for the thread of a comment are the root of
\* its thread, which is the last comment reached on its chain of parent
\* ids, and the comments that have that root among their ancestors, each
\* once and no other comment, in whatever order the list was fetched.
C28_ThreadClosure ==
    walk.kind = "resolved" =>
        LET thread == ThreadOf(forest, LastReached(forest, TargetComment.id))
        IN  /\ IdsOf(walk.collected) = thread
            /\ Len(walk.collected) = Cardinality(thread)
            /\ \A p \in Orders(Len(forest)) :
                  IdsOf(threadComments(Permuted(forest, p), TargetComment)) = thread

\* the position of the comment with this id in the fetched list
PositionOf(all, id) == CHOOSE i \in 1..Len(all) : all[i].id = id

\* C29: two comments of the thread history with the same created_at are in
\* the history in the order in which they were fetched, also when a reply
\* was fetched before its parent.
C29_TiesInFetchOrder ==
    walk.kind = "resolved" =>
        LET h == walk.threadHistory
        IN  \A k, l \in 1..Len(h) :
               (/\ k < l
                /\ ById(forest, h[k].userName).created_at
                      = ById(forest, h[l].userName).created_at)
                  => PositionOf(forest, h[k].userName)
                        < PositionOf(forest, h[l].userName)


\* C30: the id handed to getScreenshotForComment is the id used as reply
\* target: for a reply the last comment reached on its chain of parent ids,
\* also when the chain ends at a parent that was not fetched; for a
\* comment without parent its own id.
C30_AnchorIsReplyTarget ==
    walk.kind = "resolved" =>
        /\ walk.shotId = walk.replyTo
        /\ walk.shotId = LastReached(forest, TargetComment.id)
        /\ TargetComment.parent_id = NoParent => walk.shotId = TargetComment.id


----------------------------------------------------------------------------
(* Eviction from the ledger, under SpecLedger *)

\* the number of ids not in the ledger that have to be marked before the
\* entry at position i leaves it: the free places, the entries that are
\* older, and the entry itself
MarksLeft(processed, i) == LedgerCap - Len(processed) + i

\* C31: marking an id that the ledger does not hold appends it as the
\* newest entry; at the cap the oldest entry, and no other, is dropped and
\* the rest keeps its order.  The new id has the full retention ahead of
\* it, every other id one mark less than before, and an id leaves the
\* ledger only when it had a single mark left.
C31_OldestEvicted ==
    [][(walk'.kind = "marked" /\ walk'.id \notin Range(processedComments)) =>
          LET shift == IF Len(processedComments) = LedgerCap THEN 1 ELSE 0
          IN  /\ processedComments' =
                    Append(IF Len(processedComments) = LedgerCap
                           THEN Tail(processedComments)
                           ELSE processedComments,
                           walk'.id)
              /\ MarksLeft(processedComments', Len(processedComments')) = LedgerCap
              /\ \A i \in 1..Len(processedComments) :
                    IF MarksLeft(processedComments, i) > 1
                    THEN /\ processedComments'[i - shift] = processedComments[i]
                         /\ MarksLeft(processedComments', i - shift)
                               = MarksLeft(processedComments, i) - 1
                    ELSE /\ i = 1
                         /\ ~ isCommentProcessed(processedComments',
                                                 processedComments[i])]_vars

\* three ids were marked on the full ledger 1..LedgerCap: the ids 1, 2 and
\* 3 were evicted in that order, and id 1, marked again, is the newest
C31_Witness ==
    /\ walk.kind = "marked"
    /\ walk.marks = MaxMarks
    /\ walk.id = 1
    /\ Len(processedComments) = LedgerCap
    /\ processedComments[1] = 4
    /\ processedComments[LedgerCap] = 1
    /\ processedComments[LedgerCap - 1] = LedgerCap + 2


----------------------------------------------------------------------------
(* The scheduler's three flags, under SpecFailures *)

\* isActive of the status, isPolling, and the timer say the same
FlagsAgree ==
    /\ status.isActive = isPolling
    /\ isPolling = (pollingInterval # NoTimer)
    /\ timers = IF isPolling THEN 1 ELSE 0

\* C32: in every state isActive is TRUE exactly when isPolling is, and
\* exactly then one timer is armed; a step of a cycle, whether an await
\* returned or threw, leaves the three as they are, and so do a timer
\* firing and a manual trigger.
C32_FlagsAgree ==
    /\ []FlagsAgree
    /\ [][((\E r \in InFlight : Moved(r)) \/ lastFailure' # <<>>
            \/ TimerFires \/ PollNow)
             => /\ status'.isActive = status.isActive
                /\ isPolling' = isPolling
                /\ pollingInterval' = pollingInterval
                /\ timers' = timers]_vars

\* an await of processComment has just thrown in a cycle that outlived the
\* stop or was begun by hand while stopped
C32_Witness ==
    /\ appReady
    /\ lastFailure # <<>>
    /\ status.lastError = ErrProcess
    /\ ~ isPolling
    /\ ~ status.isActive
    /\ timers = 0


----------------------------------------------------------------------------
(* The engine with a completion service whose answer may contain the       *)
(* trigger, on one file and one cycle at a time.                           *)

\* what the completion service may answer: a text without the trigger, or
\* one that quotes it
EchoTexts == {Plain, TrigUpper}

InitEcho ==
    /\ InitEngine
    /\ NoForest
    /\ monitoredFiles = <<"X">>
    /\ remote = RemoteOneThread

NextEcho ==
    \/ AppReady /\ NoFailure
    \/ cyc = EmptyBag /\ TimerFires /\ NoFailure
    \/ cyc = EmptyBag /\ PollNow /\ NoFailure
    \/ \E c \in InFlight, ok \in BOOLEAN : GetFileReturns(c, ok) /\ NoFailure
    \/ \E c \in InFlight, ok \in BOOLEAN : GetCommentsReturns(c, ok) /\ NoFailure
    \/ \E c \in InFlight, out \in {"image", "none", "throws"} :
            ScreenshotReturnsF(c, out, FALSE)
    \/ \E c \in InFlight, ok \in BOOLEAN, text \in EchoTexts :
            GenerateReturnsF(c, ok, text, FALSE)
    \/ \E c \in InFlight, out \in PostOutcomes : PostReturnsF(c, out, FALSE)

SpecEcho == InitEcho /\ [][NextEcho]_vars

\* the comment was posted by the engine (PostStep numbers its replies from
\* 11)
IsEngineReply(cm) == cm.id > 10

\* C33: no cycle selects a comment that the engine posted, and no reply is
\* posted in answer to one.
C33_NoSelfReply ==
    /\ \A r \in InFlight : \A k \in 1..Len(r.sel) : ~ IsEngineReply(r.sel[k])
    /\ \A id \in BagToSet(postLog) : id <= 10


----------------------------------------------------------------------------
(* The counter of the status, under SpecFailures *)

\* C34: commentsProcessed is the number of replies posted since the module
\* was loaded: no step decreases it, and a step changes it exactly when it
\* posts a reply, by one, however the cycles in flight interleave.
C34_CounterIsPosts ==
    /\ [](status.commentsProcessed = BagCardinality(postLog))
    /\ [][/\ status'.commentsProcessed >= status.commentsProcessed
          /\ status'.commentsProcessed =
                status.commentsProcessed
                   + (BagCardinality(postLog') - BagCardinality(postLog))]_vars


----------------------------------------------------------------------------
(* The manual trigger while Stopped, under SpecScheduler *)

ManualWhileStopped == lastCall'.op = "pollNow" /\ Stopped

StaysStopped ==
    /\ Stopped'
    /\ timers' = 0
    /\ pollingInterval' = NoTimer
    /\ ~ status'.isActive

\* the step changes no variable of the engine
NothingDone ==
    /\ cyc' = cyc
    /\ status' = status
    /\ remote' = remote
    /\ postLog' = postLog
    /\ processedComments' = processedComments

\* C35 as stated: a manual trigger while Stopped leaves the scheduler
\* Stopped; with both keys stored it begins one cycle, without them it does
\* nothing.
C35_Original ==
    [][ManualWhileStopped =>
          /\ StaysStopped
          /\ IF hasCredentials THEN OneCycleBegun ELSE NothingDone]_vars

\* C35: a manual trigger while Stopped leaves the scheduler Stopped, without
\* timer and with isActive FALSE, and so does every await of its cycle that
\* returns.  With both keys stored and a file monitored it begins one
\* cycle; with both keys and no file it begins none and sets lastError to
\* "No files to monitor"; without the keys it does nothing.
C35_ManualWhileStopped ==
    [][/\ ManualWhileStopped =>
             /\ StaysStopped
             /\ CASE ~ hasCredentials -> NothingDone
                  [] hasCredentials /\ Len(monitoredFiles) = 0 ->
                        /\ cyc' = cyc
                        /\ status' = [status EXCEPT !.lastError = ErrNoFiles]
                  [] OTHER ->
                        /\ OneCycleBegun
                        /\ status' = [status EXCEPT
                                         !.filesMonitored = Len(monitoredFiles),
                                         !.lastError = NULL]
       /\ (Stopped /\ \E r \in InFlight : Moved(r)) => StaysStopped]_vars

\* the manual trigger has just begun a cycle while Stopped
C35_Witness ==
    /\ lastCall.op = "pollNow"
    /\ Stopped
    /\ Configured
    /\ ~ status.isActive
    /\ timers = 0
    /\ status.filesMonitored = 1
    /\ BagCardinality(cyc) = 1


\* C36: a call of pollOnce leaves filesMonitored at the number of files
\* monitored at that moment, also when no file is monitored any more.
C36_CountIsCurrent ==
    [][PollOnceCalled => status'.filesMonitored = Len(monitoredFiles)]_vars


----------------------------------------------------------------------------
(* polling.ts 42-63: the closure loop of buildThreadHistory, scan by scan,
   on fetched lists whose parent ids may point at the comment itself, around
   a cycle, or at a comment that was not fetched *)

\* lines 33-40 end for this target: its chain of parent ids reaches a
\* comment without parent or a parent id that was not fetched
RootWalkEnds(all, target) ==
    \E id \in AncestorsOrSelf(all, target.id) :
        ById(all, id).parent_id \notin Ids(all)

\* lines 42-51: the root, if it was fetched, threadIds and foundMore
beginClosure(all, target) ==
    LET rootId == HistoryRootWalk(all, target.id, target)
    IN  [kind |-> "closure", rootId |-> rootId,
         list |-> IF HasId(all, rootId) THEN <<ById(all, rootId)>> ELSE <<>>,
         ids |-> {rootId}, foundMore |-> TRUE, scans |-> 0]

closureScan_KeepsFlagM(all, w) ==
    LET r == ScanFrom(all, 1, [list |-> w.list, ids |-> w.ids,
                               foundMore |-> w.foundMore])
    IN  [w EXCEPT !.list = r.list, !.ids = r.ids, !.foundMore = r.foundMore,
                  !.scans = @ + 1]

\* lines 54-62: one iteration of the while loop
closureScan(all, w) ==
    LET r == ScanFrom(all, 1, [list |-> w.list, ids |-> w.ids,
                               foundMore |-> FALSE])
    IN  [w EXCEPT !.list = r.list, !.ids = r.ids, !.foundMore = r.foundMore,
                  !.scans = @ + 1]

BeginClosure(t) ==
    /\ targetIx = 0
    /\ t \in 1..Len(forest)
    /\ RootWalkEnds(forest, forest[t])
    /\ targetIx' = t
    /\ walk' = beginClosure(forest, forest[t])
    /\ walkFrame

ClosureScan ==
    /\ walk.kind = "closure"
    /\ walk.foundMore
    /\ walk' = closureScan(forest, walk)
    /\ UNCHANGED targetIx
    /\ walkFrame

NextClosure ==
    \/ \E t \in 1..MaxComments : BeginClosure(t)
    \/ ClosureScan

SpecClosure == InitWalk /\ [][NextClosure]_vars

CollectedIds(w) == {w.list[i].id : i \in 1..Len(w.list)}
CollectedOnce(w) ==
    \A i, j \in 1..Len(w.list) : w.list[i].id = w.list[j].id => i = j

----------------------------------------------------------------------------
(* The configured polling interval: store 86-92, main.ts 230-232 and
   polling.ts 318-329.  walk holds the stored 'plain.pollingInterval';
   pollingInterval, the timer, holds the period setInterval was given. *)

Unset == 0              \* no 'plain.pollingInterval' in the store
Intervals == {10, 60}   \* intervals a user enters, in seconds

StoredInterval(n) == [kind |-> "settings", pollingInterval |-> n]

\* store 90-92
getPollingInterval(stored) == IF stored = Unset THEN DefaultInterval ELSE stored

\* lines 306-330, with the interval read at line 318
startPollingStored(isP, timer, tm, st, cy, stored) ==
    IF isP
    THEN [isPolling |-> isP, pollingInterval |-> timer, timers |-> tm,
          status |-> st, cyc |-> cy]
    ELSE IF ~ hasCredentials
    THEN [isPolling |-> isP, pollingInterval |-> timer, timers |-> tm,
          status |-> [st EXCEPT !.lastError = ErrCredentials], cyc |-> cy]
    ELSE LET intervalSeconds == getPollingInterval(stored)
             r == pollOnce([st EXCEPT !.isActive = TRUE, !.lastError = NULL], cy)
         IN  [isPolling |-> TRUE, pollingInterval |-> intervalSeconds,
              timers |-> tm + 1, status |-> r.status, cyc |-> r.cyc]

InitInterval ==
    /\ InitEngine
    /\ monitoredFiles = <<"X">>
    /\ remote = RemoteQuiet
    /\ forest = <<>>
    /\ targetIx = 0
    /\ \E n \in {Unset} \cup Intervals : walk = StoredInterval(n)

\* main.ts 348-367
AppReadyStored ==
    /\ ~ appReady
    /\ appReady' = TRUE
    /\ IF hasCredentials /\ Len(monitoredFiles) > 0
       THEN LET r == startPollingStored(isPolling, pollingInterval, timers,
                                        status, cyc, walk.pollingInterval)
            IN  /\ isPolling' = r.isPolling
                /\ pollingInterval' = r.pollingInterval
                /\ timers' = r.timers
                /\ status' = r.status
                /\ cyc' = r.cyc
       ELSE UNCHANGED <<isPolling, pollingInterval, timers, status, cyc>>
    /\ UNCHANGED <<storeVars, processedComments, remote, postLog>>

\* main.ts 175-182 and 306-309
StartPollingStored ==
    /\ appReady
    /\ (~ isPolling /\ pollOnceRuns) => HasFreeSlot(cyc)
    /\ LET r == startPollingStored(isPolling, pollingInterval, timers, status,
                                   cyc, walk.pollingInterval)
       IN  /\ isPolling' = r.isPolling
           /\ pollingInterval' = r.pollingInterval
           /\ timers' = r.timers
           /\ status' = r.status
           /\ cyc' = r.cyc
    /\ UNCHANGED <<appReady, storeVars, processedComments, remote, postLog>>

SaveInterval_RearmsM(seconds) ==
    /\ appReady
    /\ walk' = IF seconds # 0 THEN StoredInterval(seconds) ELSE walk
    /\ pollingInterval' = IF seconds # 0 /\ pollingInterval # NoTimer
                          THEN seconds ELSE pollingInterval
    /\ UNCHANGED <<appReady, storeVars, processedComments, isPolling,
                   timers, status, cyc, remote, postLog>>
    /\ KeepsHistory

\* main.ts 230-232 and store 86-88: save-settings with an interval field
SaveInterval(seconds) ==
    /\ appReady
    /\ walk' = IF seconds # 0 THEN StoredInterval(seconds) ELSE walk
    /\ UNCHANGED <<appReady, storeVars, processedComments, isPolling,
                   pollingInterval, timers, status, cyc, remote, postLog>>
    /\ KeepsHistory

NextInterval ==
    \/ AppReadyStored /\ KeepsWalk
    \/ StartPollingStored /\ KeepsWalk
    \/ StopPolling /\ KeepsWalk
    \/ TimerFires /\ KeepsWalk
    \/ \E seconds \in {0} \cup Intervals : SaveInterval(seconds)
    \/ \E c \in InFlight, ok \in BOOLEAN : GetFileReturns(c, ok) /\ KeepsWalk
    \/ \E c \in InFlight, ok \in BOOLEAN : GetCommentsReturns(c, ok) /\ KeepsWalk

SpecInterval == InitInterval /\ [][NextInterval]_vars

====
